---- MODULE Spec2Model ----
(***************************************************************************)
(* The frame of pytype's rewrite VM (pytype/rewrite/frame.py): name scopes *)
(* (local / enclosing / global), nested frames created by calls, and the   *)
(* fold-back of a finished frame into the frame that created it.           *)
(*                                                                         *)
(* Names are sequences of strings: <<"y">> is the name y, <<"t", "a">> the *)
(* compound name "t.a", and <<>> stands for None (a Variable without a     *)
(* name).  A load returns a result record, Ret(var) or Raise(exception).   *)
(***************************************************************************)
EXTENDS Naturals, Sequences, FiniteSets, TLC

\* Bound of the model: the number of frames that may exist.
MaxFrames == 6

\* How deep to follow call chains (analyze.py).
INIT_MAXIMUM_DEPTH == 4
MAXIMUM_DEPTH == 3

VARIABLES
  frames,    \* every Frame created so far, by frame id (1 is the module frame)
  runstack,  \* ids of the frames inside run(), the innermost last
  err,       \* the exception that ended the analysis, "none" while there is none
  depths,    \* the depth arguments given to check_types / infer_types
  prog,      \* the code object of the module being analysed
  codes,     \* the instructions of the code objects of the program, by name
  attrs,     \* the attributes set on values: records [target, attr, value]
  folded,    \* the call chain is deeper than the MaxFrames frames kept
  pure,      \* a helper function applied on its own: [op, arg, typ, done, out]
  _INSTANCE_CACHE,  \* fiddle_overlay: (template, subclass name) -> class
  _NAME_INDEX,      \* fiddle_overlay: the counter of each builder class
  generated,        \* the Buildable classes made so far, in order
  defaults,         \* the defaults of the __init__ signature of each class
  errorlog,         \* ctx.errorlog: the errors recorded, in order
  result,           \* what the last call into the overlay returned or raised
  defs       \* analyze_all_defs: the frames whose functions are still to be
             \* analysed, the frame being worked on, its next function

\* The state of the fiddle overlay.
fiddle == <<_INSTANCE_CACHE, _NAME_INDEX, generated, defaults, errorlog, result>>

vars == <<frames, runstack, err, depths, prog, codes, attrs, folded, pure,
          _INSTANCE_CACHE, _NAME_INDEX, generated, defaults, errorlog, result,
          defs>>

----------------------------------------------------------------------------
(* Maps, names, variables and values *)

EmptyMap == [x \in {} |-> 0]

\* The dataclasses of the program the fiddle overlay is used on.
Dataclasses == {"Simple", "Complex", "PyiSimple", "Node", "Ping", "Pong"}

\* analyze_all_defs before the module has run: the module frame is the one
\* frame whose functions are to be analysed.
NoDefs == [parents |-> <<1>>, current |-> 0, next |-> 1]

\* The overlay before its first use.
FiddleIdle ==
  /\ _INSTANCE_CACHE = EmptyMap
  /\ _NAME_INDEX = [b \in {"Config", "Partial"} |-> 0]
  /\ generated = <<>>
  /\ defaults = [c \in Dataclasses |-> {}]
  /\ errorlog = <<>>
  /\ result = [op |-> "none", n |-> 0]

Put(m, k, v) == [x \in (DOMAIN m) \cup {k} |-> IF x = k THEN v ELSE m[x]]

Range(s) == {s[i] : i \in DOMAIN s}

N(s) == <<s>>

NoName == <<>>

Raise(e) == [ok |-> FALSE, exc |-> e]

Ret(v) == [ok |-> TRUE, var |-> v]

ANY == [tag |-> "Any"]

NULL == [tag |-> "NULL"]

BUILD_CLASS == [tag |-> "__build_class__"]

PythonConstant(t, c) == [tag |-> "PythonConstant", typ |-> t, c |-> c]

InterpreterFunction(name, code, enclosing_scope, parent) ==
  [tag |-> "InterpreterFunction", name |-> name, code |-> code,
   enclosing |-> enclosing_scope, parent |-> parent]

InterpreterClass(name, members, functions, classes) ==
  [tag |-> "InterpreterClass", name |-> name, members |-> members,
   functions |-> functions, classes |-> classes]

\* An instance is an object of its own: `site` is the frame and the
\* instruction of the call that made it.
MutableInstance(cls, site) ==
  [tag |-> "MutableInstance", cls |-> cls, site |-> site]

BoundFunction(callself, underlying) ==
  [tag |-> "BoundFunction", callself |-> callself, underlying |-> underlying]

PytdFunction(name) == [tag |-> "PytdFunction", name |-> name]

Variable(bindings, name) == [bindings |-> bindings, name |-> name]

to_variable(value) == Variable(<<value>>, NoName)

with_name(var, name) == [var EXCEPT !.name = name]

Values(var) == var.bindings

has_atomic_value(var, value) ==
  Len(var.bindings) = 1 /\ var.bindings[1] = value

SeqToSet(s) == {s[i] : i \in 1..Len(s)}

join_values(values) ==
  IF Len(values) > 1 THEN [tag |-> "Union", options |-> SeqToSet(values)]
  ELSE IF Len(values) = 1 THEN values[1]
  ELSE ANY

\* value.constant: the literal a PythonConstant wraps.
constant(value) == [k \in (DOMAIN value) \ {"tag"} |-> value[k]]

\* Variable.get_atomic_value(PythonConstant)
get_atomic_value(var, tag) ==
  IF Len(var.bindings) # 1 THEN Raise("ValueError")
  ELSE IF tag # "" /\ var.bindings[1].tag # tag THEN Raise("ValueError")
  ELSE Ret(var.bindings[1])

\* Python's isinstance on the literals: a bool is an int.
isinstance(lit, typ) == lit.typ = typ \/ (lit.typ = "bool" /\ typ = "int")

\* A get_atomic_constant without the check of the type, for comparison.
get_atomic_constant_untyped(var, typ) ==
  LET value == get_atomic_value(var, "PythonConstant") IN
  IF ~value.ok THEN value ELSE Ret(constant(value.var))

\* typ = "" stands for typ=None.
get_atomic_constant(var, typ) ==
  LET value == get_atomic_value(var, "PythonConstant") IN
  IF ~value.ok THEN value
  ELSE IF typ # "" /\ ~isinstance(constant(value.var), typ)
    THEN Raise("ValueError")
  ELSE Ret(constant(value.var))

flatten_variable(var) ==
  LET values == Values(var) IN
  IF Len(values) > 1 THEN [tag |-> "Union", options |-> SeqToSet(values)]
  ELSE IF Len(values) > 0 THEN values[1]
  ELSE ANY

----------------------------------------------------------------------------
(* Code objects: the instruction streams the frames run (Python 3.11) *)

Ins(op, s, n) == [op |-> op, s |-> s, n |-> n, t |-> ""]

LoadConst(t, c) == [op |-> "LOAD_CONST", s |-> c, n |-> 0, t |-> t]

MAKE_FUNCTION_HAS_FREE_VARS == 8

\* def outer(): y = 1; def reader(): return y; def inner(): nonlocal y; y = 2
\*   reader(); inner(); y = "s" ... return y
CodeIds ==
  {"m_closure", "outer", "inner", "reader", "m_global", "wrapper", "setg",
   "m_names", "m_rec", "rec", "m_class", "body", "m_bad", "m_binop",
   "m_callconst", "m_attr", "seta", "m_unbalanced", "m_branch",
   "m_callvar", "one", "m_callmixed", "m_method", "cbody", "setv",
   "m_cellattr", "holder", "rebind", "m_nested", "setab", "m_multi",
   "m_attrmixed", "m_childbad", "bad", "m_twice", "ident",
   "m_deep", "top", "mid", "low", "m_gseq", "m_gwrap", "readg", "wrapper2",
   "m_iso", "host", "bump", "m_snapattr", "hostsnap", "writes",
   "m_py310", "cbody310", "get42", "m_nonull", "m_mainfn", "fn_main"}

Modules ==
  {"m_closure", "m_global", "m_names", "m_rec", "m_class", "m_bad", "m_binop",
   "m_callconst", "m_attr", "m_unbalanced", "m_branch", "m_callvar",
   "m_callmixed", "m_method", "m_cellattr", "m_nested", "m_multi",
   "m_attrmixed", "m_childbad", "m_twice", "m_deep",
   "m_gseq", "m_gwrap", "m_iso", "m_snapattr",
   "m_py310", "m_nonull", "m_mainfn"}

CallNoArgs(load) ==
  <<Ins("PUSH_NULL", "", 0), load, Ins("PRECALL", "", 0), Ins("CALL", "", 0)>>

ReturnNone == <<LoadConst("NoneType", "None"), Ins("RETURN_VALUE", "", 0)>>

Instrs(code) ==
  CASE code = "m_closure" ->
         <<Ins("RESUME", "", 0),
           LoadConst("code", "outer"), Ins("MAKE_FUNCTION", "", 0),
           Ins("STORE_NAME", "outer", 0)>>
         \o CallNoArgs(Ins("LOAD_NAME", "outer", 0))
         \o <<Ins("STORE_NAME", "r", 0)>> \o ReturnNone
    [] code = "outer" ->
         <<Ins("MAKE_CELL", "y", 0),
           LoadConst("int", "1"), Ins("STORE_DEREF", "y", 0),
           Ins("LOAD_CLOSURE", "y", 0), Ins("BUILD_TUPLE", "", 1),
           LoadConst("code", "reader"),
           Ins("MAKE_FUNCTION", "", MAKE_FUNCTION_HAS_FREE_VARS),
           Ins("STORE_FAST", "reader", 0),
           Ins("LOAD_CLOSURE", "y", 0), Ins("BUILD_TUPLE", "", 1),
           LoadConst("code", "inner"),
           Ins("MAKE_FUNCTION", "", MAKE_FUNCTION_HAS_FREE_VARS),
           Ins("STORE_FAST", "inner", 0)>>
         \o CallNoArgs(Ins("LOAD_FAST", "reader", 0))
         \o <<Ins("POP_TOP", "", 0)>>
         \o CallNoArgs(Ins("LOAD_FAST", "inner", 0))
         \o <<Ins("POP_TOP", "", 0),
              Ins("LOAD_DEREF", "y", 0), Ins("STORE_FAST", "z", 0),
              LoadConst("str", "s"), Ins("STORE_DEREF", "y", 0),
              Ins("LOAD_DEREF", "y", 0), Ins("RETURN_VALUE", "", 0)>>
    [] code = "reader" ->
         <<Ins("COPY_FREE_VARS", "", 1), Ins("LOAD_DEREF", "y", 0),
           Ins("RETURN_VALUE", "", 0)>>
    [] code = "inner" ->
         <<Ins("COPY_FREE_VARS", "", 1),
           Ins("LOAD_DEREF", "y", 0), Ins("POP_TOP", "", 0),
           LoadConst("int", "2"), Ins("STORE_DEREF", "y", 0),
           Ins("LOAD_DEREF", "y", 0), Ins("RETURN_VALUE", "", 0)>>
    [] code = "m_global" ->
         <<LoadConst("int", "1"), Ins("STORE_NAME", "g", 0),
           LoadConst("code", "setg"), Ins("MAKE_FUNCTION", "", 0),
           Ins("STORE_NAME", "setg", 0),
           LoadConst("code", "wrapper"), Ins("MAKE_FUNCTION", "", 0),
           Ins("STORE_NAME", "wrapper", 0)>>
         \o CallNoArgs(Ins("LOAD_NAME", "wrapper", 0))
         \o <<Ins("POP_TOP", "", 0), Ins("LOAD_NAME", "g", 0),
              Ins("STORE_NAME", "h", 0)>> \o ReturnNone
    [] code = "wrapper" ->
         <<Ins("LOAD_GLOBAL", "g", 0), Ins("STORE_FAST", "before", 0),
           Ins("LOAD_GLOBAL", "setg", 1), Ins("PRECALL", "", 0),
           Ins("CALL", "", 0), Ins("POP_TOP", "", 0),
           Ins("LOAD_GLOBAL", "g", 0), Ins("RETURN_VALUE", "", 0)>>
    [] code = "setg" ->
         <<Ins("LOAD_GLOBAL", "g", 0), Ins("POP_TOP", "", 0),
           LoadConst("int", "2"), Ins("STORE_GLOBAL", "g", 0),
           Ins("LOAD_GLOBAL", "g", 0), Ins("RETURN_VALUE", "", 0)>>
    [] code = "m_names" ->
         <<LoadConst("int", "1"), Ins("STORE_NAME", "a", 0),
           LoadConst("int", "2"), Ins("STORE_GLOBAL", "b", 0),
           Ins("LOAD_NAME", "a", 0), Ins("STORE_GLOBAL", "a", 0),
           Ins("LOAD_NAME", "b", 0), Ins("STORE_NAME", "b", 0),
           Ins("LOAD_GLOBAL", "b", 0), Ins("POP_TOP", "", 0),
           Ins("LOAD_NAME", "print", 0), Ins("STORE_NAME", "p", 0),
           Ins("LOAD_NAME", "__name__", 0), Ins("POP_TOP", "", 0)>>
         \o CallNoArgs(Ins("LOAD_NAME", "print", 0))
         \o <<Ins("STORE_NAME", "q", 0)>> \o ReturnNone
    [] code = "m_rec" ->
         <<LoadConst("code", "rec"), Ins("MAKE_FUNCTION", "", 0),
           Ins("STORE_NAME", "rec", 0)>>
         \o CallNoArgs(Ins("LOAD_NAME", "rec", 0))
         \o <<Ins("POP_TOP", "", 0)>> \o ReturnNone
    [] code = "rec" ->
         <<Ins("LOAD_GLOBAL", "rec", 1), Ins("PRECALL", "", 0),
           Ins("CALL", "", 0), Ins("RETURN_VALUE", "", 0)>>
    [] code = "m_class" ->
         <<LoadConst("int", "1"), Ins("STORE_NAME", "g", 0),
           Ins("PUSH_NULL", "", 0), Ins("LOAD_BUILD_CLASS", "", 0),
           LoadConst("code", "body"), Ins("MAKE_FUNCTION", "", 0),
           LoadConst("str", "C"), Ins("PRECALL", "", 2), Ins("CALL", "", 2),
           Ins("STORE_NAME", "C", 0)>> \o ReturnNone
    [] code = "body" ->
         <<Ins("LOAD_NAME", "g", 0), Ins("STORE_NAME", "a", 0),
           LoadConst("int", "2"), Ins("STORE_NAME", "g", 0),
           Ins("LOAD_NAME", "g", 0), Ins("STORE_NAME", "b", 0),
           Ins("LOAD_NAME", "print", 0), Ins("STORE_NAME", "p", 0)>>
         \o ReturnNone
    [] code = "m_bad" ->
         <<LoadConst("int", "1"), Ins("STORE_NAME", "a", 0),
           LoadConst("int", "2"), Ins("LOAD_NAME", "undefined", 0),
           Ins("POP_TOP", "", 0)>>
    [] code = "m_binop" ->
         <<LoadConst("int", "1"), Ins("STORE_NAME", "x", 0),
           Ins("LOAD_NAME", "x", 0), LoadConst("int", "1"),
           Ins("BINARY_OP", "+", 0), Ins("STORE_NAME", "y", 0)>>
         \o ReturnNone
    [] code = "m_callconst" ->
         <<LoadConst("int", "1"), Ins("STORE_NAME", "x", 0)>>
         \o CallNoArgs(Ins("LOAD_NAME", "x", 0))
         \o <<Ins("POP_TOP", "", 0)>> \o ReturnNone
    [] code = "m_attr" ->
         <<LoadConst("int", "1"), Ins("STORE_NAME", "t", 0),
           LoadConst("code", "seta"), Ins("MAKE_FUNCTION", "", 0),
           Ins("STORE_NAME", "seta", 0),
           Ins("PUSH_NULL", "", 0), Ins("LOAD_NAME", "seta", 0),
           Ins("LOAD_NAME", "t", 0), Ins("PRECALL", "", 1),
           Ins("CALL", "", 1), Ins("POP_TOP", "", 0)>>
         \o ReturnNone
    [] code = "seta" ->
         <<LoadConst("int", "2"), Ins("LOAD_FAST", "t", 0),
           Ins("STORE_ATTR", "a", 0)>> \o ReturnNone
    [] code = "m_unbalanced" ->
         <<LoadConst("int", "1"), LoadConst("int", "2"),
           Ins("STORE_NAME", "x", 0)>>
    \* x = 1
    \* if __name__: z = 1
    \* else: z = "s"
    \* w = z
    [] code = "m_branch" ->
         <<LoadConst("int", "1"), Ins("STORE_NAME", "x", 0),
           Ins("LOAD_NAME", "__name__", 0),
           Ins("POP_JUMP_FORWARD_IF_FALSE", "", 8),
           LoadConst("int", "1"), Ins("STORE_NAME", "z", 0),
           Ins("JUMP_FORWARD", "", 10),
           LoadConst("str", "s"), Ins("STORE_NAME", "z", 0),
           Ins("LOAD_NAME", "z", 0), Ins("STORE_NAME", "w", 0)>>
         \o ReturnNone
    \* def one(): return 1
    \* if __name__: g = one
    \* else: g = print
    \* r = g()
    [] code = "m_callvar" ->
         <<LoadConst("code", "one"), Ins("MAKE_FUNCTION", "", 0),
           Ins("STORE_NAME", "one", 0),
           Ins("LOAD_NAME", "__name__", 0),
           Ins("POP_JUMP_FORWARD_IF_FALSE", "", 9),
           Ins("LOAD_NAME", "one", 0), Ins("STORE_NAME", "g", 0),
           Ins("JUMP_FORWARD", "", 11),
           Ins("LOAD_NAME", "print", 0), Ins("STORE_NAME", "g", 0)>>
         \o CallNoArgs(Ins("LOAD_NAME", "g", 0))
         \o <<Ins("STORE_NAME", "r", 0)>> \o ReturnNone
    [] code = "one" ->
         <<LoadConst("int", "1"), Ins("RETURN_VALUE", "", 0)>>
    \* if __name__: g = print
    \* else: g = 1
    \* r = g()
    [] code = "m_callmixed" ->
         <<Ins("LOAD_NAME", "__name__", 0),
           Ins("POP_JUMP_FORWARD_IF_FALSE", "", 6),
           Ins("LOAD_NAME", "print", 0), Ins("STORE_NAME", "g", 0),
           Ins("JUMP_FORWARD", "", 8),
           LoadConst("int", "1"), Ins("STORE_NAME", "g", 0)>>
         \o CallNoArgs(Ins("LOAD_NAME", "g", 0))
         \o <<Ins("STORE_NAME", "r", 0)>> \o ReturnNone
    \* class C:
    \*   k = 1
    \*   def setv(self): self.v = 1
    \* c = C(); c.setv(); r = c.v
    [] code = "m_method" ->
         <<Ins("PUSH_NULL", "", 0), Ins("LOAD_BUILD_CLASS", "", 0),
           LoadConst("code", "cbody"), Ins("MAKE_FUNCTION", "", 0),
           LoadConst("str", "C"), Ins("PRECALL", "", 2), Ins("CALL", "", 2),
           Ins("STORE_NAME", "C", 0)>>
         \o CallNoArgs(Ins("LOAD_NAME", "C", 0))
         \o <<Ins("STORE_NAME", "c", 0),
              Ins("LOAD_NAME", "c", 0), Ins("LOAD_METHOD", "setv", 0),
              Ins("PRECALL", "", 0), Ins("CALL", "", 0), Ins("POP_TOP", "", 0),
              Ins("LOAD_NAME", "c", 0), Ins("LOAD_ATTR", "v", 0),
              Ins("STORE_NAME", "r", 0)>>
         \o ReturnNone
    [] code = "cbody" ->
         <<LoadConst("int", "1"), Ins("STORE_NAME", "k", 0),
           LoadConst("code", "setv"), Ins("MAKE_FUNCTION", "", 0),
           Ins("STORE_NAME", "setv", 0)>> \o ReturnNone
    [] code = "setv" ->
         <<LoadConst("int", "1"), Ins("LOAD_FAST", "self", 0),
           Ins("STORE_ATTR", "v", 0)>> \o ReturnNone
    \* def holder():
    \*   t = 1
    \*   def rebind(): nonlocal t; global q; t = 2; t.a = 3; q = 4
    \*   rebind()
    \* holder()
    [] code = "m_cellattr" ->
         <<LoadConst("code", "holder"), Ins("MAKE_FUNCTION", "", 0),
           Ins("STORE_NAME", "holder", 0)>>
         \o CallNoArgs(Ins("LOAD_NAME", "holder", 0))
         \o <<Ins("POP_TOP", "", 0)>> \o ReturnNone
    [] code = "holder" ->
         <<Ins("MAKE_CELL", "t", 0),
           LoadConst("int", "1"), Ins("STORE_DEREF", "t", 0),
           Ins("LOAD_CLOSURE", "t", 0), Ins("BUILD_TUPLE", "", 1),
           LoadConst("code", "rebind"),
           Ins("MAKE_FUNCTION", "", MAKE_FUNCTION_HAS_FREE_VARS),
           Ins("STORE_FAST", "rebind", 0)>>
         \o CallNoArgs(Ins("LOAD_FAST", "rebind", 0))
         \o <<Ins("POP_TOP", "", 0)>> \o ReturnNone
    [] code = "rebind" ->
         <<Ins("COPY_FREE_VARS", "", 1),
           LoadConst("int", "2"), Ins("STORE_DEREF", "t", 0),
           LoadConst("int", "3"), Ins("LOAD_DEREF", "t", 0),
           Ins("STORE_ATTR", "a", 0),
           LoadConst("int", "4"), Ins("STORE_GLOBAL", "q", 0)>>
         \o ReturnNone
    \* t = 1
    \* def setab(t): t.a = 2; t.a.b = 3
    \* setab(t)
    [] code = "m_nested" ->
         <<LoadConst("int", "1"), Ins("STORE_NAME", "t", 0),
           LoadConst("code", "setab"), Ins("MAKE_FUNCTION", "", 0),
           Ins("STORE_NAME", "setab", 0),
           Ins("PUSH_NULL", "", 0), Ins("LOAD_NAME", "setab", 0),
           Ins("LOAD_NAME", "t", 0), Ins("PRECALL", "", 1),
           Ins("CALL", "", 1), Ins("POP_TOP", "", 0)>>
         \o ReturnNone
    [] code = "setab" ->
         <<LoadConst("int", "2"), Ins("LOAD_FAST", "t", 0),
           Ins("STORE_ATTR", "a", 0),
           LoadConst("int", "3"), Ins("LOAD_FAST", "t", 0),
           Ins("LOAD_ATTR", "a", 0), Ins("STORE_ATTR", "b", 0)>>
         \o ReturnNone
    \* if __name__: z = 1
    \* else: z = "s"
    \* def seta(t): t.a = 2
    \* seta(z); r = z.a
    [] code = "m_multi" ->
         <<Ins("LOAD_NAME", "__name__", 0),
           Ins("POP_JUMP_FORWARD_IF_FALSE", "", 6),
           LoadConst("int", "1"), Ins("STORE_NAME", "z", 0),
           Ins("JUMP_FORWARD", "", 8),
           LoadConst("str", "s"), Ins("STORE_NAME", "z", 0),
           LoadConst("code", "seta"), Ins("MAKE_FUNCTION", "", 0),
           Ins("STORE_NAME", "seta", 0),
           Ins("PUSH_NULL", "", 0), Ins("LOAD_NAME", "seta", 0),
           Ins("LOAD_NAME", "z", 0), Ins("PRECALL", "", 1),
           Ins("CALL", "", 1), Ins("POP_TOP", "", 0),
           Ins("LOAD_NAME", "z", 0), Ins("LOAD_ATTR", "a", 0),
           Ins("STORE_NAME", "r", 0)>>
         \o ReturnNone
    \* class C: k = 1 ...
    \* if __name__: x = C
    \* else: x = 1
    \* r = x.k
    [] code = "m_attrmixed" ->
         <<Ins("PUSH_NULL", "", 0), Ins("LOAD_BUILD_CLASS", "", 0),
           LoadConst("code", "cbody"), Ins("MAKE_FUNCTION", "", 0),
           LoadConst("str", "C"), Ins("PRECALL", "", 2), Ins("CALL", "", 2),
           Ins("STORE_NAME", "C", 0),
           Ins("LOAD_NAME", "__name__", 0),
           Ins("POP_JUMP_FORWARD_IF_FALSE", "", 14),
           Ins("LOAD_NAME", "C", 0), Ins("STORE_NAME", "x", 0),
           Ins("JUMP_FORWARD", "", 16),
           LoadConst("int", "1"), Ins("STORE_NAME", "x", 0),
           Ins("LOAD_NAME", "x", 0), Ins("LOAD_ATTR", "k", 0),
           Ins("STORE_NAME", "r", 0)>>
         \o ReturnNone
    \* def bad(): return undefined
    \* r = bad(); s = 1
    [] code = "m_childbad" ->
         <<LoadConst("code", "bad"), Ins("MAKE_FUNCTION", "", 0),
           Ins("STORE_NAME", "bad", 0)>>
         \o CallNoArgs(Ins("LOAD_NAME", "bad", 0))
         \o <<Ins("STORE_NAME", "r", 0),
              LoadConst("int", "1"), Ins("STORE_NAME", "s", 0)>>
         \o ReturnNone
    [] code = "bad" ->
         <<Ins("LOAD_GLOBAL", "undefined", 0), Ins("RETURN_VALUE", "", 0)>>
    \* def ident(t): x = t; return x
    \* a = ident(1); b = ident("s")
    [] code = "m_twice" ->
         <<LoadConst("code", "ident"), Ins("MAKE_FUNCTION", "", 0),
           Ins("STORE_NAME", "ident", 0),
           Ins("PUSH_NULL", "", 0), Ins("LOAD_NAME", "ident", 0),
           LoadConst("int", "1"), Ins("PRECALL", "", 1),
           Ins("CALL", "", 1), Ins("STORE_NAME", "a", 0),
           Ins("PUSH_NULL", "", 0), Ins("LOAD_NAME", "ident", 0),
           LoadConst("str", "s"), Ins("PRECALL", "", 1),
           Ins("CALL", "", 1), Ins("STORE_NAME", "b", 0)>>
         \o ReturnNone
    [] code = "ident" ->
         <<Ins("LOAD_FAST", "t", 0), Ins("STORE_FAST", "x", 0),
           Ins("LOAD_FAST", "x", 0), Ins("RETURN_VALUE", "", 0)>>
    \* def top():
    \*   y = 1
    \*   def mid():
    \*     def low(): nonlocal y; y = 2
    \*     low()
    \*   mid(); return y
    \* r = top()
    [] code = "m_deep" ->
         <<LoadConst("code", "top"), Ins("MAKE_FUNCTION", "", 0),
           Ins("STORE_NAME", "top", 0)>>
         \o CallNoArgs(Ins("LOAD_NAME", "top", 0))
         \o <<Ins("STORE_NAME", "r", 0)>> \o ReturnNone
    [] code = "top" ->
         <<Ins("MAKE_CELL", "y", 0),
           LoadConst("int", "1"), Ins("STORE_DEREF", "y", 0),
           Ins("LOAD_CLOSURE", "y", 0), Ins("BUILD_TUPLE", "", 1),
           LoadConst("code", "mid"),
           Ins("MAKE_FUNCTION", "", MAKE_FUNCTION_HAS_FREE_VARS),
           Ins("STORE_FAST", "mid", 0)>>
         \o CallNoArgs(Ins("LOAD_FAST", "mid", 0))
         \o <<Ins("POP_TOP", "", 0),
              Ins("LOAD_DEREF", "y", 0), Ins("RETURN_VALUE", "", 0)>>
    [] code = "mid" ->
         <<Ins("COPY_FREE_VARS", "", 1),
           Ins("LOAD_CLOSURE", "y", 0), Ins("BUILD_TUPLE", "", 1),
           LoadConst("code", "low"),
           Ins("MAKE_FUNCTION", "", MAKE_FUNCTION_HAS_FREE_VARS),
           Ins("STORE_FAST", "low", 0)>>
         \o CallNoArgs(Ins("LOAD_FAST", "low", 0))
         \o <<Ins("POP_TOP", "", 0)>> \o ReturnNone
    [] code = "low" ->
         <<Ins("COPY_FREE_VARS", "", 1),
           LoadConst("int", "2"), Ins("STORE_DEREF", "y", 0)>>
         \o ReturnNone
    \* g = 1
    \* def setg(): global g; g = 2
    \* def readg(): return g
    \* setg(); r = readg()
    [] code = "m_gseq" ->
         <<LoadConst("int", "1"), Ins("STORE_NAME", "g", 0),
           LoadConst("code", "setg"), Ins("MAKE_FUNCTION", "", 0),
           Ins("STORE_NAME", "setg", 0),
           LoadConst("code", "readg"), Ins("MAKE_FUNCTION", "", 0),
           Ins("STORE_NAME", "readg", 0)>>
         \o CallNoArgs(Ins("LOAD_NAME", "setg", 0))
         \o <<Ins("POP_TOP", "", 0)>>
         \o CallNoArgs(Ins("LOAD_NAME", "readg", 0))
         \o <<Ins("STORE_NAME", "r", 0)>> \o ReturnNone
    \* the same, with the two calls in a function:
    \* def wrapper2(): setg(); return readg()
    \* w = wrapper2()
    [] code = "m_gwrap" ->
         <<LoadConst("int", "1"), Ins("STORE_NAME", "g", 0),
           LoadConst("code", "setg"), Ins("MAKE_FUNCTION", "", 0),
           Ins("STORE_NAME", "setg", 0),
           LoadConst("code", "readg"), Ins("MAKE_FUNCTION", "", 0),
           Ins("STORE_NAME", "readg", 0),
           LoadConst("code", "wrapper2"), Ins("MAKE_FUNCTION", "", 0),
           Ins("STORE_NAME", "wrapper2", 0)>>
         \o CallNoArgs(Ins("LOAD_NAME", "wrapper2", 0))
         \o <<Ins("STORE_NAME", "w", 0)>> \o ReturnNone
    [] code = "readg" ->
         <<Ins("LOAD_GLOBAL", "g", 0), Ins("RETURN_VALUE", "", 0)>>
    \* g = 1
    \* def host():
    \*   y = 1
    \*   def bump(): nonlocal y; global g; y = 2; g = 3; y.a = 4
    \*   return y
    [] code = "m_iso" ->
         <<LoadConst("int", "1"), Ins("STORE_NAME", "g", 0),
           LoadConst("code", "host"), Ins("MAKE_FUNCTION", "", 0),
           Ins("STORE_NAME", "host", 0)>> \o ReturnNone
    [] code = "host" ->
         <<Ins("MAKE_CELL", "y", 0),
           LoadConst("int", "1"), Ins("STORE_DEREF", "y", 0),
           Ins("LOAD_CLOSURE", "y", 0), Ins("BUILD_TUPLE", "", 1),
           LoadConst("code", "bump"),
           Ins("MAKE_FUNCTION", "", MAKE_FUNCTION_HAS_FREE_VARS),
           Ins("STORE_FAST", "bump", 0),
           Ins("LOAD_DEREF", "y", 0), Ins("RETURN_VALUE", "", 0)>>
    \* g = 1
    \* def hostsnap():
    \*   y = 1
    \*   def writes(): y.a = 2; g.b = 3
    \*   writes()
    \* hostsnap()
    [] code = "m_snapattr" ->
         <<LoadConst("int", "1"), Ins("STORE_NAME", "g", 0),
           LoadConst("code", "hostsnap"), Ins("MAKE_FUNCTION", "", 0),
           Ins("STORE_NAME", "hostsnap", 0)>>
         \o CallNoArgs(Ins("LOAD_NAME", "hostsnap", 0))
         \o <<Ins("POP_TOP", "", 0)>> \o ReturnNone
    [] code = "hostsnap" ->
         <<Ins("MAKE_CELL", "y", 0),
           LoadConst("int", "1"), Ins("STORE_DEREF", "y", 0),
           Ins("LOAD_CLOSURE", "y", 0), Ins("BUILD_TUPLE", "", 1),
           LoadConst("code", "writes"),
           Ins("MAKE_FUNCTION", "", MAKE_FUNCTION_HAS_FREE_VARS),
           Ins("STORE_FAST", "writes", 0)>>
         \o CallNoArgs(Ins("LOAD_FAST", "writes", 0))
         \o <<Ins("POP_TOP", "", 0)>> \o ReturnNone
    [] code = "writes" ->
         <<Ins("COPY_FREE_VARS", "", 1),
           LoadConst("int", "2"), Ins("LOAD_DEREF", "y", 0),
           Ins("STORE_ATTR", "a", 0),
           LoadConst("int", "3"), Ins("LOAD_GLOBAL", "g", 0),
           Ins("STORE_ATTR", "b", 0)>> \o ReturnNone
    \* compiled for Python 3.10:
    \* class C:
    \*   def get(self): return 42
    \* x = C().get()
    [] code = "m_py310" ->
         <<Ins("LOAD_BUILD_CLASS", "", 0),
           LoadConst("code", "cbody310"), LoadConst("str", "C"),
           Ins("MAKE_FUNCTION", "", 0), LoadConst("str", "C"),
           Ins("CALL_FUNCTION", "", 2), Ins("STORE_NAME", "C", 0),
           Ins("LOAD_NAME", "C", 0), Ins("CALL_FUNCTION", "", 0),
           Ins("LOAD_METHOD", "get", 0), Ins("CALL_METHOD", "", 0),
           Ins("STORE_NAME", "x", 0)>> \o ReturnNone
    [] code = "cbody310" ->
         <<LoadConst("code", "get42"), LoadConst("str", "C.get"),
           Ins("MAKE_FUNCTION", "", 0), Ins("STORE_NAME", "get", 0)>>
         \o ReturnNone
    [] code = "get42" ->
         <<LoadConst("int", "42"), Ins("RETURN_VALUE", "", 0)>>
    \* def __main__():
    \*   global g
    \*   g = 1
    \* __main__()
    [] code = "m_mainfn" ->
         <<LoadConst("code", "fn_main"), Ins("MAKE_FUNCTION", "", 0),
           Ins("STORE_NAME", "__main__", 0),
           Ins("PUSH_NULL", "", 0), Ins("LOAD_NAME", "__main__", 0),
           Ins("PRECALL", "", 0), Ins("CALL", "", 0),
           Ins("POP_TOP", "", 0)>> \o ReturnNone
    [] code = "fn_main" ->
         <<LoadConst("int", "1"), Ins("STORE_GLOBAL", "g", 0)>>
         \o ReturnNone
    \* a CALL over a stack without the marker
    [] code = "m_nonull" ->
         <<Ins("LOAD_NAME", "print", 0), Ins("LOAD_NAME", "print", 0),
           Ins("PRECALL", "", 0), Ins("CALL", "", 0),
           Ins("POP_TOP", "", 0)>> \o ReturnNone
    [] code = "bump" ->
         <<Ins("COPY_FREE_VARS", "", 1),
           LoadConst("int", "2"), Ins("STORE_DEREF", "y", 0),
           LoadConst("int", "3"), Ins("STORE_GLOBAL", "g", 0),
           LoadConst("int", "4"), Ins("LOAD_DEREF", "y", 0),
           Ins("STORE_ATTR", "a", 0)>> \o ReturnNone
    [] code = "wrapper2" ->
         <<Ins("LOAD_GLOBAL", "setg", 1), Ins("PRECALL", "", 0),
           Ins("CALL", "", 0), Ins("POP_TOP", "", 0),
           Ins("LOAD_GLOBAL", "readg", 1), Ins("PRECALL", "", 0),
           Ins("CALL", "", 0), Ins("RETURN_VALUE", "", 0)>>

\* The jumps: argval is the index of the target instruction.
JumpOps == {"POP_JUMP_FORWARD_IF_FALSE", "JUMP_FORWARD"}

\* The first instructions of the blocks of a code object: the first
\* instruction, the targets of the jumps and the instructions after them.
BlockStarts(code) ==
  {1} \cup {codes[code][i].n : i \in {j \in DOMAIN codes[code] :
                                        codes[code][j].op \in JumpOps}}
      \cup {i + 1 : i \in {j \in DOMAIN codes[code] :
                             codes[code][j].op \in JumpOps}}

carry_on_to_next(ins) == ins.op \notin {"JUMP_FORWARD", "RETURN_VALUE"}

has_known_jump(ins) == ins.op \in JumpOps

\* The name a code object gives its frame (qualname): the module is __main__.
CodeName(code) == IF code \in Modules \cup {"fn_main"} THEN "__main__" ELSE code

BuiltinNames == {"print"}

\* convert.get_module_globals
ModuleGlobals ==
  Put(Put(Put(EmptyMap, N("__name__"), to_variable(ANY)),
          N("assert_type"), to_variable([tag |-> "AssertType"])),
      N("int"), to_variable([tag |-> "BaseClass", name |-> "int"]))

----------------------------------------------------------------------------
(* Frame: construction and scope resolution *)

\* Frame.__init__ with its two sanity checks.  The data stack, the shadowed
\* names, the functions, classes and returns start empty; final_locals is None.
NewFrame(id, name, code, initial_locals, initial_enclosing, initial_globals, f_back) ==
  IF (name = "__main__" /\ initial_locals # initial_globals)
     \/ (f_back = 0 /\ initial_enclosing # EmptyMap)
    THEN Raise("AssertionError")
  ELSE [ok |-> TRUE,
        frame |->
          [id |-> id, name |-> name, code |-> code, pc |-> 1,
           live |-> TRUE,                 \* _current_state is not None
           locals |-> initial_locals,     \* _current_state's locals
           locals_order |-> <<>>,         \* the locals' names, as first stored
           states |-> EmptyMap,           \* _states: the states merged into
                                          \* the blocks still to run
           has_final |-> FALSE,           \* final_locals is not None
           final_locals |-> EmptyMap,
           initial_enclosing |-> initial_enclosing,
           initial_globals |-> initial_globals,
           f_back |-> f_back,
           stack |-> <<>>,
           shadowed_enclosing |-> {},
           shadowed_globals |-> {},
           functions |-> <<>>,
           classes |-> <<>>,
           returns |-> <<>>,
           call |-> [active |-> FALSE, funcs |-> <<>>, posargs |-> <<>>,
                     rets |-> <<>>, building |-> FALSE]]]

make_module_frame(code, initial_globals) ==
  NewFrame(1, "__main__", code, initial_globals, EmptyMap, initial_globals, 0)

_is_module_frame(f) == f.name = "__main__"

_shadows_enclosing(f, name) == name \in f.shadowed_enclosing

\* _shadows_global without its module-frame case, for comparison.
_shadows_global_nocheck(f, name) == name \in f.shadowed_globals

_shadows_global(f, name) ==
  IF _is_module_frame(f) THEN FALSE ELSE name \in f.shadowed_globals

\* self._current_state.store_local / load_local: None once the frame is
\* finalized, and then any use raises AttributeError.
state_store_local(f, name, var) ==
  IF ~f.live THEN Raise("AttributeError")
  ELSE [ok |-> TRUE,
        frame |-> [f EXCEPT !.locals = Put(@, name, var),
                            !.locals_order =
                              IF name \in DOMAIN f.locals THEN @
                              ELSE Append(@, name)]]

\* The current state of a frame: its locals.
BlockState(f) == [locals |-> f.locals, locals_order |-> f.locals_order]

\* The Variable of a name at the meeting of two states: the bindings of both.
merge_variables(var, other) ==
  IF var = other THEN other
  ELSE Variable(other.bindings
                \o SelectSeq(var.bindings,
                             LAMBDA b : b \notin SeqToSet(other.bindings)),
                other.name)

\* BlockState.merge_into: the state joined with the one already merged into
\* the target.
merge_into(state, other) ==
  [locals |->
     [name \in (DOMAIN state.locals) \cup (DOMAIN other.locals) |->
        IF name \notin DOMAIN other.locals THEN state.locals[name]
        ELSE IF name \notin DOMAIN state.locals THEN other.locals[name]
        ELSE merge_variables(state.locals[name], other.locals[name])],
   locals_order |->
     other.locals_order
     \o SelectSeq(state.locals_order,
                  LAMBDA n : n \notin SeqToSet(other.locals_order))]

\* FrameBase._merge_state_into(state, target index)
_merge_state_into(f, state, target) ==
  [f EXCEPT !.states =
     Put(@, target,
         IF target \in DOMAIN @ THEN merge_into(state, @[target]) ELSE state)]

\* The end of FrameBase.step: at the end of a block the state is merged
\* into the next block unless the instruction jumps or returns, and the next
\* instruction runs in the state merged into its block.
Advance(f) ==
  LET code == codes[f.code]
      ins == code[f.pc]
      nxt == f.pc + 1
      block_end == nxt \in BlockStarts(f.code)
      g == IF block_end /\ nxt <= Len(code)
              /\ carry_on_to_next(ins) /\ ~has_known_jump(ins)
             THEN _merge_state_into(f, BlockState(f), nxt)
           ELSE f
      h == IF block_end /\ nxt \in DOMAIN g.states
             THEN [g EXCEPT !.locals = g.states[nxt].locals,
                            !.locals_order = g.states[nxt].locals_order]
           ELSE g
  IN [h EXCEPT !.pc = nxt]

state_load_local(f, name) ==
  IF ~f.live THEN Raise("AttributeError")
  ELSE IF name \in DOMAIN f.locals THEN Ret(with_name(f.locals[name], name))
  ELSE Raise("KeyError")

store_local(f, name, var) == state_store_local(f, name, var)

store_enclosing(f, name, var) ==
  LET r == state_store_local(f, name, var) IN
  IF ~r.ok THEN r
  ELSE [r EXCEPT !.frame.shadowed_enclosing = @ \cup {name}]

\* store_global without add_global, for comparison.
store_global_unmarked(f, name, var) == state_store_local(f, name, var)

store_global(f, name, var) ==
  LET r == state_store_local(f, name, var) IN
  IF ~r.ok THEN r
  ELSE [r EXCEPT !.frame.shadowed_globals = @ \cup {name}]

\* A write that is never marked as shadowing, for comparison.
store_deref_plain(f, name, var) == store_local(f, name, var)

store_deref(f, name, var) ==
  IF name \in DOMAIN f.initial_enclosing THEN store_enclosing(f, name, var)
  ELSE store_local(f, name, var)

load_local(f, name) ==
  IF _shadows_enclosing(f, name) \/ _shadows_global(f, name)
    THEN Raise("KeyError")
  ELSE state_load_local(f, name)

\* A load_enclosing that re-reads the creating frame, for comparison.
load_enclosing_live_parent(f, name) ==
  IF _shadows_enclosing(f, name) THEN state_load_local(f, name)
  ELSE IF f.f_back # 0 /\ name \in DOMAIN frames[f.f_back].locals
    THEN Ret(with_name(frames[f.f_back].locals[name], name))
  ELSE Raise("KeyError")

\* A load_enclosing that ignores the frame's own writes, for comparison.
load_enclosing_snapshot_only(f, name) ==
  IF name \in DOMAIN f.initial_enclosing
    THEN Ret(with_name(f.initial_enclosing[name], name))
  ELSE Raise("KeyError")

load_enclosing(f, name) ==
  IF _shadows_enclosing(f, name) THEN state_load_local(f, name)
  ELSE IF name \in DOMAIN f.initial_enclosing
    THEN Ret(with_name(f.initial_enclosing[name], name))
  ELSE Raise("KeyError")

load_builtin(name) ==
  IF Len(name) = 1 /\ name[1] \in BuiltinNames
    THEN Ret(Variable(<<PytdFunction(name[1])>>, name))
  ELSE Raise("KeyError")

load_global(f, name) ==
  IF _shadows_global(f, name) THEN state_load_local(f, name)
  ELSE LET r == IF _is_module_frame(f) THEN state_load_local(f, name)
                ELSE IF name \in DOMAIN f.initial_globals
                  THEN Ret(with_name(f.initial_globals[name], name))
                ELSE Raise("KeyError")
       IN IF ~r.ok /\ r.exc = "KeyError" THEN load_builtin(name) ELSE r

load_deref(f, name) ==
  LET r == load_local(f, name) IN
  IF ~r.ok /\ r.exc = "KeyError" THEN load_enclosing(f, name) ELSE r

\* The lookup with its two tiers swapped, for comparison.
load_name_global_first(f, name) ==
  LET r == load_global(f, name) IN
  IF ~r.ok /\ r.exc = "KeyError" THEN load_local(f, name) ELSE r

\* byte_LOAD_NAME's lookup: the local, and on KeyError the global.
load_name(f, name) ==
  LET r == load_local(f, name) IN
  IF ~r.ok /\ r.exc = "KeyError" THEN load_global(f, name) ELSE r

\* FrameBase: the frame is consumed once its last instruction has run, and
\* _final_locals are the locals it then has.
Consumed(f) == f.pc > Len(codes[f.code])

_final_locals(f) == IF Consumed(f) THEN f.locals ELSE EmptyMap

\* The enclosing scope a child frame of f gets for the names in `scope`.
child_enclosing(f, current_locals, scope) ==
  [name \in SeqToSet(scope) |->
     IF name \in DOMAIN current_locals THEN current_locals[name]
     ELSE f.initial_enclosing[name]]

\* A global snapshot that is handed on as it was received, for comparison.
child_globals_stale(f, current_locals) ==
  IF _is_module_frame(f) THEN current_locals ELSE f.initial_globals

child_globals(f, current_locals) ==
  IF _is_module_frame(f) THEN current_locals
  ELSE [name \in (DOMAIN f.initial_globals) \cup f.shadowed_globals |->
          IF name \in f.shadowed_globals THEN current_locals[name]
          ELSE f.initial_globals[name]]

\* A child frame that also starts with the locals of its creating frame, for
\* comparison.
make_child_frame_sharing(f, id, func, initial_locals) ==
  LET r == NewFrame(id, func.name, func.code, initial_locals,
                    child_enclosing(f, f.locals, func.enclosing),
                    child_globals(f, f.locals), f.id)
  IN [r EXCEPT !.frame.locals =
        [name \in DOMAIN initial_locals \cup DOMAIN f.locals |->
           IF name \in DOMAIN initial_locals THEN initial_locals[name]
           ELSE f.locals[name]]]

make_child_frame(f, id, func, initial_locals) ==
  LET use_final == _final_locals(f) # EmptyMap
      current_locals ==
        IF use_final
          THEN [name \in DOMAIN f.final_locals |-> to_variable(f.final_locals[name])]
        ELSE f.locals
      scope == SeqToSet(func.enclosing)
  IN
  IF use_final /\ ~f.has_final THEN Raise("AttributeError")
  ELSE IF ~use_final /\ ~f.live THEN Raise("AttributeError")
  ELSE IF \E name \in scope :
            name \in DOMAIN current_locals /\ _shadows_global(f, name)
    THEN Raise("AssertionError")
  ELSE IF \E name \in scope :
            name \notin DOMAIN current_locals
            /\ name \notin DOMAIN f.initial_enclosing
    THEN Raise("KeyError")
  ELSE IF ~_is_module_frame(f)
          /\ \E name \in f.shadowed_globals : name \notin DOMAIN current_locals
    THEN Raise("KeyError")
  ELSE NewFrame(id, func.name, func.code, initial_locals,
                child_enclosing(f, current_locals, func.enclosing),
                child_globals(f, current_locals), f.id)

get_return_value(f) ==
  LET RECURSIVE concat(_)
      concat(rets) ==
        IF rets = <<>> THEN <<>>
        ELSE Values(Head(rets)) \o concat(Tail(rets))
  IN join_values(concat(f.returns))

----------------------------------------------------------------------------
(* The data stack and the opcode handlers, as functions of the frame *)

OkF(f) == [ok |-> TRUE, frame |-> f]

Push(f, var) == [f EXCEPT !.stack = Append(@, var)]

Top(f) == f.stack[Len(f.stack)]

PopN(f, n) == [f EXCEPT !.stack = SubSeq(@, 1, Len(@) - n)]

LastN(f, n) == SubSeq(f.stack, Len(f.stack) - n + 1, Len(f.stack))

\* A handler's frame, one value popped and then stored by `store`.
PopAndStore(f, r) ==
  IF ~r.ok THEN r ELSE OkF(PopN(r.frame, 1))

PushLoaded(f, r) == IF ~r.ok THEN r ELSE OkF(Push(f, r.var))

op_NOP(f, ins) == OkF(f)

op_LOAD_CONST(f, ins) == OkF(Push(f, to_variable(PythonConstant(ins.t, ins.s))))

op_RETURN_VALUE(f, ins) ==
  IF f.stack = <<>> THEN Raise("IndexError")
  ELSE OkF([PopN(f, 1) EXCEPT !.returns = Append(@, Top(f))])

op_STORE_NAME(f, ins) ==
  IF f.stack = <<>> THEN Raise("IndexError")
  ELSE PopAndStore(f, store_local(f, N(ins.s), Top(f)))

op_STORE_FAST(f, ins) ==
  IF f.stack = <<>> THEN Raise("IndexError")
  ELSE PopAndStore(f, store_local(f, N(ins.s), Top(f)))

op_STORE_GLOBAL(f, ins) ==
  IF f.stack = <<>> THEN Raise("IndexError")
  ELSE PopAndStore(f, store_global(f, N(ins.s), Top(f)))

op_STORE_DEREF(f, ins) ==
  IF f.stack = <<>> THEN Raise("IndexError")
  ELSE PopAndStore(f, store_deref(f, N(ins.s), Top(f)))

\* target.get_attribute(attr_name): an attribute set on the value; for an
\* instance, else, the member of its class, a function bound to the
\* instance; for a class, its member.
get_attribute(at, target, attr_name) ==
  LET set == {a \in at : a.target = target /\ a.attr = attr_name}
      members == IF target.tag = "MutableInstance" THEN target.cls.members
                 ELSE IF target.tag = "InterpreterClass" THEN target.members
                 ELSE EmptyMap
  IN IF set # {} THEN Ret((CHOOSE a \in set : TRUE).value)
     ELSE IF N(attr_name) \notin DOMAIN members THEN Raise("AttributeError")
     ELSE IF target.tag = "MutableInstance"
             /\ members[N(attr_name)].tag = "InterpreterFunction"
       THEN Ret(BoundFunction(target, members[N(attr_name)]))
     ELSE Ret(members[N(attr_name)])

_load_attr(f, at, target_var, attr_name) ==
  LET name == IF target_var.name # NoName
                THEN Append(target_var.name, attr_name) ELSE NoName
      loaded == load_local(f, name)
      values == Values(target_var)
  IN IF loaded.ok \/ loaded.exc # "KeyError" THEN loaded
     ELSE IF \E i \in DOMAIN values : ~get_attribute(at, values[i], attr_name).ok
       THEN Raise("NotImplementedError")
     ELSE Ret(Variable([i \in DOMAIN values |->
                          get_attribute(at, values[i], attr_name).var], name))

op_LOAD_ATTR(f, ins) ==
  IF f.stack = <<>> THEN Raise("IndexError")
  ELSE PushLoaded(PopN(f, 1), _load_attr(f, attrs, Top(f), ins.s))

op_LOAD_METHOD(f, ins) ==
  IF f.stack = <<>> THEN Raise("IndexError")
  ELSE PushLoaded(Push(PopN(f, 1), to_variable(NULL)),
                  _load_attr(f, attrs, Top(f), ins.s))

op_STORE_ATTR(f, ins) ==
  IF Len(f.stack) < 2 THEN Raise("IndexError")
  ELSE LET attr == LastN(f, 2)[1]
           target == LastN(f, 2)[2]
       IN IF target.name = NoName THEN Raise("NotImplementedError")
          ELSE LET r == store_local(f, Append(target.name, ins.s), attr)
               IN IF ~r.ok THEN r ELSE OkF(PopN(r.frame, 2))

PythonVersion(code) ==
  IF code \in {"m_py310", "cbody310", "get42"} THEN <<3, 10>> ELSE <<3, 11>>

\* A byte_MAKE_FUNCTION that lists every function it makes, for comparison.
make_function_listed(f, ins, code, g) ==
  LET has_free == ins.n = MAKE_FUNCTION_HAS_FREE_VARS
      fv == IF has_free /\ g.stack # <<>>
              THEN get_atomic_constant(Top(g), "") ELSE Raise("IndexError")
      h == IF has_free THEN PopN(g, 1) ELSE g
      enclosing_scope ==
        IF has_free THEN [i \in 1..Len(fv.var.elts) |-> fv.var.elts[i].name]
        ELSE <<>>
      func == InterpreterFunction(CodeName(code.c), code.c, enclosing_scope, f.id)
  IN
  IF has_free /\ ~fv.ok THEN fv
  ELSE IF has_free /\ fv.var.typ # "tuple" THEN Raise("TypeError")
  ELSE IF has_free /\ \E i \in 1..Len(fv.var.elts) : fv.var.elts[i].name = NoName
    THEN Raise("AssertionError")
  ELSE OkF(Push([h EXCEPT !.functions = Append(@, func)], to_variable(func)))

\* byte_MAKE_FUNCTION after the version's pops: `code` and `rest` are the
\* code constant and the frame with the name and code popped.
make_function(f, ins, code, g) ==
  LET has_free == ins.n = MAKE_FUNCTION_HAS_FREE_VARS
      fv == IF has_free /\ g.stack # <<>>
              THEN get_atomic_constant(Top(g), "") ELSE Raise("IndexError")
      h == IF has_free THEN PopN(g, 1) ELSE g
      enclosing_scope ==
        IF has_free THEN [i \in 1..Len(fv.var.elts) |-> fv.var.elts[i].name]
        ELSE <<>>
      func == InterpreterFunction(CodeName(code.c), code.c, enclosing_scope, f.id)
      is_class_body == h.stack # <<>> /\ has_atomic_value(Top(h), BUILD_CLASS)
      k == IF is_class_body THEN h ELSE [h EXCEPT !.functions = Append(@, func)]
  IN
  IF has_free /\ ~fv.ok THEN fv
  ELSE IF has_free /\ fv.var.typ # "tuple" THEN Raise("TypeError")
  ELSE IF has_free /\ \E i \in 1..Len(fv.var.elts) : fv.var.elts[i].name = NoName
    THEN Raise("AssertionError")
  ELSE OkF(Push(k, to_variable(func)))

op_MAKE_FUNCTION(f, ins) ==
  IF ins.n \notin {0, MAKE_FUNCTION_HAS_FREE_VARS} THEN Raise("NotImplementedError")
  ELSE IF PythonVersion(f.code) = <<3, 11>>
    THEN IF f.stack = <<>> THEN Raise("IndexError")
         ELSE LET code == get_atomic_constant(Top(f), "code")
              IN IF ~code.ok THEN code
                 ELSE make_function(f, ins, code.var, PopN(f, 1))
  ELSE IF Len(f.stack) < 2 THEN Raise("IndexError")
       ELSE LET name == get_atomic_constant(Top(f), "str")
                code == get_atomic_constant(Top(PopN(f, 1)), "code")
            IN IF ~name.ok THEN name
               ELSE IF ~code.ok THEN code
               ELSE make_function(f, ins, code.var, PopN(f, 2))

op_PUSH_NULL(f, ins) == OkF(Push(f, to_variable(NULL)))

op_LOAD_NAME(f, ins) == PushLoaded(f, load_name(f, N(ins.s)))

op_LOAD_FAST(f, ins) == PushLoaded(f, load_local(f, N(ins.s)))

op_LOAD_DEREF(f, ins) == PushLoaded(f, load_deref(f, N(ins.s)))

op_LOAD_CLOSURE(f, ins) == PushLoaded(f, load_deref(f, N(ins.s)))

op_LOAD_GLOBAL(f, ins) ==
  LET g == IF PythonVersion(f.code) = <<3, 11>> /\ ins.n % 2 = 1
             THEN Push(f, to_variable(NULL)) ELSE f
  IN PushLoaded(g, load_global(f, N(ins.s)))

op_LOAD_BUILD_CLASS(f, ins) == OkF(Push(f, to_variable(BUILD_CLASS)))

op_BUILD_TUPLE(f, ins) ==
  IF Len(f.stack) < ins.n THEN Raise("IndexError")
  ELSE OkF(Push(PopN(f, ins.n),
                to_variable([tag |-> "PythonConstant", typ |-> "tuple",
                             elts |-> LastN(f, ins.n)])))

\* _pop_jump_if_false: the state goes to the target and to the next
\* instruction, each with a condition that says nothing yet.
op_POP_JUMP_FORWARD_IF_FALSE(f, ins) ==
  IF f.stack = <<>> THEN Raise("IndexError")
  ELSE LET g == PopN(f, 1)
           jump == _merge_state_into(g, BlockState(g), ins.n)
       IN OkF(_merge_state_into(jump, BlockState(g), g.pc + 1))

\* A JUMP_FORWARD that forgets the state it leaves, for comparison.
op_JUMP_FORWARD_dropped(f, ins) == OkF(f)

op_JUMP_FORWARD(f, ins) == OkF(_merge_state_into(f, BlockState(f), ins.n))

op_POP_TOP(f, ins) ==
  IF f.stack = <<>> THEN Raise("IndexError") ELSE OkF(PopN(f, 1))

\* byte_CALL up to the loop of _call_function: the callable values still to
\* be called, the arguments, and the values returned so far.
\* A byte_CALL that calls only the first value of the callable, for
\* comparison.
\* byte_CALL_FUNCTION, up to the call of _call_function.
op_CALL_FUNCTION(f, ins) ==
  IF Len(f.stack) < ins.n + 1 THEN Raise("IndexError")
  ELSE LET items == LastN(f, ins.n + 1)
       IN OkF([PopN(f, ins.n + 1) EXCEPT
                 !.call = [active |-> TRUE,
                           funcs |-> Values(items[1]),
                           posargs |-> SubSeq(items, 2, ins.n + 1),
                           rets |-> <<>>,
                           building |-> FALSE]])

\* A CALL_METHOD that leaves the entry below the callable, for comparison.
op_CALL_METHOD_keeping(f, ins) == op_CALL_FUNCTION(f, ins)

\* byte_CALL_METHOD, up to the call of _call_function: the entry below the
\* callable is popped and discarded, whatever it is.
op_CALL_METHOD(f, ins) ==
  IF Len(f.stack) < ins.n + 2 THEN Raise("IndexError")
  ELSE LET items == LastN(f, ins.n + 1)
       IN OkF([PopN(f, ins.n + 2) EXCEPT
                 !.call = [active |-> TRUE,
                           funcs |-> Values(items[1]),
                           posargs |-> SubSeq(items, 2, ins.n + 1),
                           rets |-> <<>>,
                           building |-> FALSE]])

op_CALL_first_only(f, ins) ==
  IF Len(f.stack) < ins.n + 2 THEN Raise("IndexError")
  ELSE LET items == LastN(f, ins.n + 2)
       IN IF ~has_atomic_value(items[1], NULL) THEN Raise("NotImplementedError")
          ELSE OkF([PopN(f, ins.n + 2) EXCEPT
                      !.call = [active |-> TRUE,
                                funcs |-> SubSeq(Values(items[2]), 1, 1),
                                posargs |-> SubSeq(items, 3, ins.n + 2),
                                rets |-> <<>>,
                                building |-> FALSE]])

op_CALL(f, ins) ==
  IF Len(f.stack) < ins.n + 2 THEN Raise("IndexError")
  ELSE LET items == LastN(f, ins.n + 2)
       IN IF ~has_atomic_value(items[1], NULL) THEN Raise("NotImplementedError")
          ELSE OkF([PopN(f, ins.n + 2) EXCEPT
                      !.call = [active |-> TRUE,
                                funcs |-> Values(items[2]),
                                posargs |-> SubSeq(items, 3, ins.n + 2),
                                rets |-> <<>>,
                                building |-> FALSE]])

----------------------------------------------------------------------------
(* The end of run(): fold-back into the creating frame, and finalization *)

set_attribute(at, target, attr_name, value) ==
  {a \in at : ~(a.target = target /\ a.attr = attr_name)}
  \cup {[target |-> target, attr |-> attr_name, value |-> value]}

RECURSIVE set_attribute_on_all(_, _, _, _)
set_attribute_on_all(at, targets, attr_name, value) ==
  IF targets = <<>> THEN at
  ELSE set_attribute_on_all(set_attribute(at, Head(targets), attr_name, value),
                            Tail(targets), attr_name, value)

\* A first loop that stores every attribute write in the creating frame
\* when there is one, for comparison.
RECURSIVE merge_attributes_as_locals(_, _, _)
merge_attributes_as_locals(f, names, m) ==
  IF names = <<>> \/ ~m.ok THEN m
  ELSE
    LET name == Head(names)
        stored == store_local(m.frame, name, _final_locals(f)[name])
    IN
    IF Len(name) < 2 \/ ~m.has \/ ~stored.ok
         \/ SubSeq(name, 1, Len(name) - 1) \notin DOMAIN _final_locals(f)
      THEN merge_attributes_as_locals(f, Tail(names), m)
    ELSE merge_attributes_as_locals(f, Tail(names),
                                    [m EXCEPT !.frame = stored.frame])

\* The first loop of _merge_nonlocals_into, over the names still to visit.
\* m is [ok, has, frame, attrs, log]: the creating frame (if live) and the
\* attributes, as changed so far, and the writes made, in their order.
RECURSIVE merge_attributes(_, _, _)
merge_attributes(f, names, m) ==
  IF names = <<>> \/ ~m.ok THEN m
  ELSE
    LET name == Head(names)
        var == _final_locals(f)[name]
        target_name == SubSeq(name, 1, Len(name) - 1)
        attr_name == name[Len(name)]
    IN
    IF Len(name) < 2 \/ target_name \notin DOMAIN _final_locals(f)
      THEN merge_attributes(f, Tail(names), m)
    ELSE
      LET target_var == _final_locals(f)[target_name]
          loaded == load_local(m.frame, target_name)
          fatal == m.has /\ ~loaded.ok /\ loaded.exc # "KeyError"
          store_on_target ==
            IF m.has
              THEN IF ~loaded.ok THEN TRUE
                   ELSE Values(target_var) # Values(loaded.var)
            ELSE TRUE
          stored == store_local(m.frame, name, var)
      IN
      IF fatal THEN [m EXCEPT !.ok = FALSE, !.exc = loaded.exc]
      ELSE IF store_on_target
        THEN merge_attributes(f, Tail(names),
               [m EXCEPT !.attrs =
                  set_attribute_on_all(@, Values(target_var), attr_name,
                                       join_values(Values(var))),
                         !.log = Append(@, <<"set_attribute", name>>)])
      ELSE IF ~stored.ok THEN [m EXCEPT !.ok = FALSE, !.exc = stored.exc]
      ELSE merge_attributes(f, Tail(names),
             [m EXCEPT !.frame = stored.frame,
                       !.log = Append(@, <<"store_local", name>>)])

\* A set's elements in the order the loops over it visit them.
RECURSIVE SetToSeq(_)
SetToSeq(S) ==
  IF S = {} THEN <<>>
  ELSE LET x == CHOOSE y \in S : TRUE IN <<x>> \o SetToSeq(S \ {x})

RECURSIVE merge_enclosing(_, _, _)
merge_enclosing(f, names, m) ==
  IF names = <<>> \/ ~m.ok THEN m
  ELSE LET r == store_deref(m.frame, Head(names), _final_locals(f)[Head(names)])
       IN IF ~r.ok THEN [m EXCEPT !.ok = FALSE, !.exc = r.exc]
          ELSE merge_enclosing(f, Tail(names),
                 [m EXCEPT !.frame = r.frame,
                           !.log = Append(@, <<"store_deref", Head(names)>>)])

RECURSIVE merge_globals(_, _, _)
merge_globals(f, names, m) ==
  IF names = <<>> \/ ~m.ok THEN m
  ELSE LET r == store_global(m.frame, Head(names), _final_locals(f)[Head(names)])
       IN IF ~r.ok THEN [m EXCEPT !.ok = FALSE, !.exc = r.exc]
          ELSE merge_globals(f, Tail(names),
                 [m EXCEPT !.frame = r.frame,
                           !.log = Append(@, <<"store_global", Head(names)>>)])

\* _merge_nonlocals_into(frame): m.has tells whether `frame` is not None.
_merge_nonlocals_into(f, m) ==
  LET a == merge_attributes(f, f.locals_order, m) IN
  IF ~m.has THEN a
  ELSE merge_globals(f, SetToSeq(f.shadowed_globals),
         merge_enclosing(f, SetToSeq(f.shadowed_enclosing), a))

\* run() ending without the join, for comparison.
finalize_unflattened(f) ==
  [f EXCEPT !.live = FALSE, !.has_final = TRUE,
            !.final_locals = _final_locals(f)]

\* run() ending without clearing the state, for comparison.
finalize_keep_state(f) ==
  [f EXCEPT !.has_final = TRUE,
            !.final_locals =
              [name \in DOMAIN _final_locals(f) |->
                 join_values(Values(_final_locals(f)[name]))]]

\* The last two statements of run(): the state is cleared and final_locals set.
finalize(f) ==
  [f EXCEPT !.live = FALSE, !.has_final = TRUE,
            !.final_locals =
              [name \in DOMAIN _final_locals(f) |->
                 join_values(Values(_final_locals(f)[name]))]]

\* run() without its second assertion, for comparison.
end_of_run_unchecked(f) == f.stack = f.stack

\* The assertion after run()'s loop.
end_of_run_assert(f) == f.stack = <<>>

----------------------------------------------------------------------------
(* The state machine: the frame on top of the run stack takes the steps *)

cur == runstack[Len(runstack)]

F == frames[cur]

Instr == codes[F.code][F.pc]

\* FrameBase.step has an instruction to run (no FrameConsumedError).
Stepping ==
  err = "none" /\ runstack # <<>> /\ ~Consumed(F) /\ ~F.call.active

\* _call_function is in its loop over the callable's values.
Calling == err = "none" /\ runstack # <<>> /\ F.call.active

\* A handler's outcome: the frame after it with the next instruction
\* current, or the exception, which no frame catches.
Commit(r) ==
  /\ IF r.ok
       THEN /\ frames' = [frames EXCEPT ![cur] = Advance(r.frame)]
            /\ err' = err
       ELSE /\ frames' = frames
            /\ err' = r.exc
  /\ UNCHANGED <<pure, fiddle, defs, codes, runstack, depths, prog, attrs, folded>>

ImplementedOps ==
  {"NOP", "PRECALL", "RESUME", "MAKE_CELL", "COPY_FREE_VARS", "LOAD_CONST",
   "RETURN_VALUE", "STORE_NAME", "STORE_FAST", "STORE_GLOBAL", "STORE_DEREF",
   "STORE_ATTR", "MAKE_FUNCTION", "PUSH_NULL", "LOAD_NAME", "LOAD_FAST",
   "LOAD_DEREF", "LOAD_CLOSURE", "LOAD_GLOBAL", "LOAD_BUILD_CLASS",
   "BUILD_TUPLE", "POP_TOP", "CALL", "POP_JUMP_FORWARD_IF_FALSE",
   "JUMP_FORWARD", "LOAD_ATTR", "LOAD_METHOD", "CALL_FUNCTION",
   "CALL_METHOD"}

step_unimplemented ==
  /\ Stepping /\ Instr.op \notin ImplementedOps
  /\ err' = "NotImplementedError"
  /\ UNCHANGED <<pure, fiddle, defs, codes, frames, runstack, depths, prog, attrs, folded>>

byte_PRECALL == Stepping /\ Instr.op = "PRECALL" /\ Commit(op_NOP(F, Instr))

byte_RESUME == Stepping /\ Instr.op = "RESUME" /\ Commit(op_NOP(F, Instr))

byte_MAKE_CELL == Stepping /\ Instr.op = "MAKE_CELL" /\ Commit(op_NOP(F, Instr))

byte_COPY_FREE_VARS ==
  Stepping /\ Instr.op = "COPY_FREE_VARS" /\ Commit(op_NOP(F, Instr))

byte_LOAD_CONST ==
  Stepping /\ Instr.op = "LOAD_CONST" /\ Commit(op_LOAD_CONST(F, Instr))

byte_RETURN_VALUE ==
  Stepping /\ Instr.op = "RETURN_VALUE" /\ Commit(op_RETURN_VALUE(F, Instr))

byte_STORE_NAME ==
  Stepping /\ Instr.op = "STORE_NAME" /\ Commit(op_STORE_NAME(F, Instr))

byte_STORE_FAST ==
  Stepping /\ Instr.op = "STORE_FAST" /\ Commit(op_STORE_FAST(F, Instr))

byte_STORE_GLOBAL ==
  Stepping /\ Instr.op = "STORE_GLOBAL" /\ Commit(op_STORE_GLOBAL(F, Instr))

byte_STORE_DEREF ==
  Stepping /\ Instr.op = "STORE_DEREF" /\ Commit(op_STORE_DEREF(F, Instr))

byte_STORE_ATTR ==
  Stepping /\ Instr.op = "STORE_ATTR" /\ Commit(op_STORE_ATTR(F, Instr))

byte_LOAD_ATTR ==
  Stepping /\ Instr.op = "LOAD_ATTR" /\ Commit(op_LOAD_ATTR(F, Instr))

byte_LOAD_METHOD ==
  Stepping /\ Instr.op = "LOAD_METHOD" /\ Commit(op_LOAD_METHOD(F, Instr))

byte_MAKE_FUNCTION ==
  Stepping /\ Instr.op = "MAKE_FUNCTION" /\ Commit(op_MAKE_FUNCTION(F, Instr))

byte_PUSH_NULL ==
  Stepping /\ Instr.op = "PUSH_NULL" /\ Commit(op_PUSH_NULL(F, Instr))

byte_LOAD_NAME ==
  Stepping /\ Instr.op = "LOAD_NAME" /\ Commit(op_LOAD_NAME(F, Instr))

byte_LOAD_FAST ==
  Stepping /\ Instr.op = "LOAD_FAST" /\ Commit(op_LOAD_FAST(F, Instr))

byte_LOAD_DEREF ==
  Stepping /\ Instr.op = "LOAD_DEREF" /\ Commit(op_LOAD_DEREF(F, Instr))

byte_LOAD_CLOSURE ==
  Stepping /\ Instr.op = "LOAD_CLOSURE" /\ Commit(op_LOAD_CLOSURE(F, Instr))

byte_LOAD_GLOBAL ==
  Stepping /\ Instr.op = "LOAD_GLOBAL" /\ Commit(op_LOAD_GLOBAL(F, Instr))

byte_LOAD_BUILD_CLASS ==
  Stepping /\ Instr.op = "LOAD_BUILD_CLASS"
  /\ Commit(op_LOAD_BUILD_CLASS(F, Instr))

byte_BUILD_TUPLE ==
  Stepping /\ Instr.op = "BUILD_TUPLE" /\ Commit(op_BUILD_TUPLE(F, Instr))

byte_POP_JUMP_FORWARD_IF_FALSE ==
  /\ Stepping /\ Instr.op = "POP_JUMP_FORWARD_IF_FALSE"
  /\ Commit(op_POP_JUMP_FORWARD_IF_FALSE(F, Instr))

byte_JUMP_FORWARD ==
  Stepping /\ Instr.op = "JUMP_FORWARD" /\ Commit(op_JUMP_FORWARD(F, Instr))

byte_POP_TOP == Stepping /\ Instr.op = "POP_TOP" /\ Commit(op_POP_TOP(F, Instr))

\* byte_CALL enters _call_function; the instruction is finished by
\* call_function_push.
byte_CALL ==
  /\ Stepping /\ Instr.op = "CALL"
  /\ LET r == op_CALL(F, Instr) IN
     IF r.ok THEN frames' = [frames EXCEPT ![cur] = r.frame] /\ err' = err
     ELSE frames' = frames /\ err' = r.exc
  /\ UNCHANGED <<pure, fiddle, defs, codes, runstack, depths, prog, attrs, folded>>

byte_CALL_FUNCTION ==
  /\ Stepping /\ Instr.op = "CALL_FUNCTION"
  /\ LET r == op_CALL_FUNCTION(F, Instr) IN
     IF r.ok THEN frames' = [frames EXCEPT ![cur] = r.frame] /\ err' = err
     ELSE frames' = frames /\ err' = r.exc
  /\ UNCHANGED <<pure, fiddle, defs, codes, runstack, depths, prog, attrs, folded>>

byte_CALL_METHOD ==
  /\ Stepping /\ Instr.op = "CALL_METHOD"
  /\ LET r == op_CALL_METHOD(F, Instr) IN
     IF r.ok THEN frames' = [frames EXCEPT ![cur] = r.frame] /\ err' = err
     ELSE frames' = frames /\ err' = r.exc
  /\ UNCHANGED <<pure, fiddle, defs, codes, runstack, depths, prog, attrs, folded>>

\* The parameters of a code object, which the arguments of a call are
\* mapped to.
CodeParams(code) ==
  IF code \in {"seta", "setab", "ident"} THEN <<"t">>
  ELSE IF code \in {"setv", "get42"} THEN <<"self">>
  ELSE <<>>

\* InterpreterFunction.call: the child frame of the calling frame, about to
\* run.
function_call(f, id, func, posargs) ==
  LET params == CodeParams(func.code)
      n == IF Len(posargs) < Len(params) THEN Len(posargs) ELSE Len(params)
  IN make_child_frame(f, id, func,
                      [name \in {N(params[i]) : i \in 1..n} |->
                         posargs[CHOOSE i \in 1..n : N(params[i]) = name]])

\* BoundFunction.call: the underlying function, called with the receiver
\* as its first argument.
bound_call(f, id, func, posargs) ==
  IF func.tag = "BoundFunction"
    THEN function_call(f, id, func.underlying,
                       <<to_variable(func.callself)>> \o posargs)
  ELSE function_call(f, id, func, posargs)

StartChild(r) ==
  IF r.ok
    THEN /\ frames' = Append(frames, r.frame)
         /\ runstack' = Append(runstack, Len(frames) + 1)
         /\ err' = err
  ELSE /\ frames' = frames /\ runstack' = runstack /\ err' = r.exc

\* _call_function, first branch, an interpreter function: func.call(args)
\* makes the child frame and runs it.
call_function_interpreter ==
  /\ Calling /\ F.call.funcs # <<>>
  /\ Head(F.call.funcs).tag \in {"InterpreterFunction", "BoundFunction"}
  /\ Len(frames) < MaxFrames
  /\ StartChild(bound_call(F, Len(frames) + 1, Head(F.call.funcs),
                           F.call.posargs))
  /\ UNCHANGED <<pure, fiddle, defs, codes, depths, prog, attrs, folded>>

\* The same branch once MaxFrames frames exist and the newest is the caller:
\* func.call(args) makes and runs the child frame all the same, nothing in
\* _call_function or make_child_frame looks at the depth.  Only the newest
\* MaxFrames frames are kept: the child takes the caller's place, and
\* `folded` records that older frames are out of sight.
call_function_fold ==
  /\ Calling /\ F.call.funcs # <<>>
  /\ Head(F.call.funcs).tag \in {"InterpreterFunction", "BoundFunction"}
  /\ Len(frames) = MaxFrames /\ cur = MaxFrames
  /\ LET r == bound_call(F, MaxFrames, Head(F.call.funcs), F.call.posargs)
     IN IF r.ok
          THEN /\ frames' = [frames EXCEPT ![MaxFrames] = r.frame]
               /\ folded' = TRUE
               /\ err' = err
        ELSE frames' = frames /\ folded' = folded /\ err' = r.exc
  /\ UNCHANGED <<pure, fiddle, defs, codes, runstack, depths, prog, attrs>>

\* _call_function, first branch, the other callables: no frame is made.
call_function_simple ==
  /\ Calling /\ F.call.funcs # <<>>
  /\ Head(F.call.funcs).tag \in {"PytdFunction", "InterpreterClass"}
  /\ LET func == Head(F.call.funcs)
         ret == IF func.tag = "InterpreterClass"
                  THEN MutableInstance(func, <<cur, F.pc>>)
                ELSE ANY
     IN frames' = [frames EXCEPT ![cur].call.rets = Append(@, ret),
                                 ![cur].call.funcs = Tail(@)]
  /\ UNCHANGED <<pure, fiddle, defs, codes, runstack, err, depths, prog, attrs, folded>>

\* _call_function, second branch: the class body is run as a child frame.
call_function_build_class ==
  /\ Calling /\ F.call.funcs # <<>>
  /\ Head(F.call.funcs) = BUILD_CLASS
  /\ Len(frames) < MaxFrames
  /\ IF Len(F.call.posargs) # 2
       THEN err' = "ValueError" /\ UNCHANGED <<pure, fiddle, defs, codes, frames, runstack>>
     ELSE LET class_body == F.call.posargs[1] IN
          IF Len(class_body.bindings) # 1
             \/ class_body.bindings[1].tag # "InterpreterFunction"
            THEN err' = "ValueError" /\ UNCHANGED <<pure, fiddle, defs, codes, frames, runstack>>
          ELSE LET r == function_call(F, Len(frames) + 1,
                                      class_body.bindings[1], <<>>)
               IN IF r.ok
                    THEN /\ frames' = Append([frames EXCEPT
                                                 ![cur].call.building = TRUE],
                                             r.frame)
                         /\ runstack' = Append(runstack, Len(frames) + 1)
                         /\ err' = err
                  ELSE /\ frames' = frames /\ runstack' = runstack
                       /\ err' = r.exc
  /\ UNCHANGED <<pure, fiddle, defs, codes, depths, prog, attrs, folded>>

\* A last branch that answers Any instead of raising, for comparison.
call_function_unimplemented_skipped ==
  /\ Calling /\ F.call.funcs # <<>>
  /\ Head(F.call.funcs) # BUILD_CLASS
  /\ Head(F.call.funcs).tag
       \notin {"InterpreterFunction", "PytdFunction", "InterpreterClass",
                "BoundFunction"}
  /\ frames' = [frames EXCEPT ![cur].call.rets = Append(@, ANY),
                              ![cur].call.funcs = Tail(@)]
  /\ UNCHANGED <<pure, fiddle, defs, codes, runstack, err, depths, prog, attrs, folded>>

\* _call_function, last branch.
call_function_unimplemented ==
  /\ Calling /\ F.call.funcs # <<>>
  /\ Head(F.call.funcs) # BUILD_CLASS
  /\ Head(F.call.funcs).tag
       \notin {"InterpreterFunction", "PytdFunction", "InterpreterClass",
                "BoundFunction"}
  /\ err' = "NotImplementedError"
  /\ UNCHANGED <<pure, fiddle, defs, codes, frames, runstack, depths, prog, attrs, folded>>

\* _call_function after its loop: one Variable with a binding per result.
call_function_push ==
  /\ Calling /\ F.call.funcs = <<>>
  /\ frames' = [frames EXCEPT
                  ![cur] = Advance([Push(F, Variable(F.call.rets, NoName))
                                      EXCEPT !.call.active = FALSE,
                                             !.call.rets = <<>>,
                                             !.call.posargs = <<>>])]
  /\ UNCHANGED <<pure, fiddle, defs, codes, runstack, err, depths, prog, attrs, folded>>

\* A class builder that does not record the class in the frame, for
\* comparison.
resume_caller_unlisted(c, done) ==
  IF c.call.building
    THEN LET name == get_atomic_constant(c.call.posargs[2], "str") IN
         IF ~name.ok THEN name
         ELSE LET cls == InterpreterClass(name.var.c, done.final_locals,
                                          done.functions, done.classes) IN
              OkF([c EXCEPT !.call.rets = Append(@, cls),
                            !.call.funcs = Tail(@),
                            !.call.building = FALSE])
  ELSE OkF([c EXCEPT !.call.rets = Append(@, get_return_value(done)),
                     !.call.funcs = Tail(@)])

\* What _call_function does with the frame `done` that func.call returned:
\* its return value, or the class built from it.
resume_caller(c, done) ==
  IF c.call.building
    THEN LET name == get_atomic_constant(c.call.posargs[2], "str") IN
         IF ~name.ok THEN name
         ELSE LET cls == InterpreterClass(name.var.c, done.final_locals,
                                          done.functions, done.classes) IN
              OkF([c EXCEPT !.classes = Append(@, cls),
                            !.call.rets = Append(@, cls),
                            !.call.funcs = Tail(@),
                            !.call.building = FALSE])
  ELSE OkF([c EXCEPT !.call.rets = Append(@, get_return_value(done)),
                     !.call.funcs = Tail(@)])

\* run(): the creating frame is passed to _merge_nonlocals_into if it has
\* no final_locals yet.
\* A creating frame that is folded into whether finalized or not, for
\* comparison.
live_parent_any(f) == f.f_back # 0

live_parent(f) == f.f_back # 0 /\ ~frames[f.f_back].has_final

\* The creating frame and the attributes when _merge_nonlocals_into starts.
merge_start(f) ==
  [ok |-> TRUE, exc |-> "", has |-> live_parent(f),
   frame |-> IF live_parent(f) THEN frames[f.f_back] ELSE f,
   attrs |-> attrs, log |-> <<>>]

\* run() from the FrameConsumedError on, and the return into the caller.
run_finish ==
  /\ err = "none" /\ runstack # <<>> /\ Consumed(F) /\ ~F.has_final
  /\ LET live == live_parent(F)
         m == _merge_nonlocals_into(F, merge_start(F))
         merged == IF live THEN [frames EXCEPT ![F.f_back] = m.frame]
                   ELSE frames
         done == finalize(F)
         caller == IF Len(runstack) > 1 THEN runstack[Len(runstack) - 1] ELSE 0
         back == resume_caller(merged[caller], done)
     IN
     IF ~end_of_run_assert(F)
       THEN err' = "AssertionError" /\ UNCHANGED <<pure, fiddle, defs, codes, frames, runstack, attrs>>
     ELSE IF ~m.ok
       THEN err' = m.exc /\ UNCHANGED <<pure, fiddle, defs, codes, frames, runstack, attrs>>
     ELSE IF caller # 0 /\ ~back.ok
       THEN /\ err' = back.exc
            /\ frames' = [merged EXCEPT ![cur] = done]
            /\ attrs' = m.attrs
            /\ runstack' = runstack
     ELSE /\ err' = err
          /\ attrs' = m.attrs
          /\ runstack' = SubSeq(runstack, 1, Len(runstack) - 1)
          /\ frames' = IF caller = 0 THEN [merged EXCEPT ![cur] = done]
                       ELSE [merged EXCEPT ![cur] = done, ![caller] = back.frame]
  /\ UNCHANGED <<pure, fiddle, defs, codes, depths, prog, folded>>

\* check_types / infer_types: the depths are arguments (with defaults), the
\* module frame is made over the module's code and the module's globals.
DepthArgs == {1, 2, MAXIMUM_DEPTH, INIT_MAXIMUM_DEPTH}

Init ==
  /\ prog \in Modules
  /\ codes = [code \in CodeIds |-> Instrs(code)]
  /\ depths \in [init_maximum_depth : DepthArgs, maximum_depth : DepthArgs]
  /\ frames = <<make_module_frame(prog, ModuleGlobals).frame>>
  /\ runstack = <<1>>
  /\ err = "none"
  /\ attrs = {}
  /\ folded = FALSE
  /\ pure = [op |-> "none"]
  /\ FiddleIdle
  /\ defs = NoDefs

Next ==
  \/ step_unimplemented
  \/ byte_PRECALL \/ byte_RESUME \/ byte_MAKE_CELL \/ byte_COPY_FREE_VARS
  \/ byte_LOAD_CONST \/ byte_RETURN_VALUE
  \/ byte_STORE_NAME \/ byte_STORE_FAST \/ byte_STORE_GLOBAL
  \/ byte_STORE_DEREF \/ byte_STORE_ATTR
  \/ byte_MAKE_FUNCTION \/ byte_PUSH_NULL
  \/ byte_LOAD_NAME \/ byte_LOAD_FAST \/ byte_LOAD_DEREF \/ byte_LOAD_CLOSURE
  \/ byte_LOAD_GLOBAL \/ byte_LOAD_BUILD_CLASS \/ byte_BUILD_TUPLE
  \/ byte_POP_TOP \/ byte_CALL \/ byte_CALL_FUNCTION \/ byte_CALL_METHOD
  \/ byte_POP_JUMP_FORWARD_IF_FALSE \/ byte_JUMP_FORWARD
  \/ byte_LOAD_ATTR \/ byte_LOAD_METHOD
  \/ call_function_interpreter \/ call_function_fold
  \/ call_function_simple
  \/ call_function_build_class \/ call_function_unimplemented
  \/ call_function_push
  \/ run_finish

Spec == Init /\ [][Next]_vars

\* The analysis is one thread that runs until run() of the module frame
\* returns or an exception leaves it: a step that can be taken is taken.
FairSpec == Init /\ [][Next]_vars /\ WF_vars(Next)

----------------------------------------------------------------------------
(* The analysis of the functions on their own, after the module has run *)

\* analyze_all_defs is between two functions: no frame is running and the
\* module frame is finalized.
BetweenDefs == err = "none" /\ runstack = <<>> /\ frames[1].has_final

\* The loop over the frames to work on: the last one added is taken next.
analyze_next_frame ==
  /\ BetweenDefs /\ defs.parents # <<>>
  /\ IF defs.current = 0 THEN TRUE
     ELSE defs.next > Len(frames[defs.current].functions)
  /\ defs' = [parents |-> SubSeq(defs.parents, 1, Len(defs.parents) - 1),
              current |-> defs.parents[Len(defs.parents)], next |-> 1]
  /\ UNCHANGED <<pure, fiddle, codes, frames, runstack, err, depths, prog,
                 attrs, folded>>

\* func.analyze(): the function is called with Any for every parameter, in
\* a child frame of the finalized frame that holds it; the frame made is one
\* more frame to work on.
analyze_function ==
  /\ BetweenDefs /\ defs.current # 0
  /\ defs.next <= Len(frames[defs.current].functions)
  /\ Len(frames) < MaxFrames
  /\ LET func == frames[defs.current].functions[defs.next]
         args == [i \in DOMAIN CodeParams(func.code) |-> to_variable(ANY)]
         r == function_call(frames[defs.current], Len(frames) + 1, func, args)
     IN IF r.ok
          THEN /\ frames' = Append(frames, r.frame)
               /\ runstack' = <<Len(frames) + 1>>
               /\ err' = err
               /\ defs' = [defs EXCEPT !.next = @ + 1,
                                       !.parents = Append(@, Len(frames) + 1)]
        ELSE /\ err' = r.exc /\ UNCHANGED <<frames, runstack, defs>>
  /\ UNCHANGED <<pure, fiddle, codes, depths, prog, attrs, folded>>

AnalyzeNext == Next \/ analyze_next_frame \/ analyze_function

AnalyzeSpec == Init /\ [][AnalyzeNext]_vars

----------------------------------------------------------------------------
(* The helper functions of abstract/utils.py, applied to arguments *)

MaxJoinLen == 3

PureValues ==
  {ANY, PythonConstant("int", "1"), PythonConstant("str", "s"),
   PythonConstant("bool", "True")}

RECURSIVE SeqsUpTo(_, _)
SeqsUpTo(S, n) ==
  IF n = 0 THEN {<<>>}
  ELSE LET shorter == SeqsUpTo(S, n - 1) IN
       shorter \cup {Append(w, x) : w \in {v \in shorter : Len(v) = n - 1},
                                    x \in S}

JoinInputs == SeqsUpTo(PureValues, MaxJoinLen)

AtomicTypes == {"", "int", "str", "tuple"}

PureInit ==
  /\ prog = "m_names"
  /\ codes = [code \in CodeIds |-> Instrs(code)]
  /\ depths = [init_maximum_depth |-> INIT_MAXIMUM_DEPTH,
               maximum_depth |-> MAXIMUM_DEPTH]
  /\ frames = <<make_module_frame(prog, ModuleGlobals).frame>>
  /\ runstack = <<>>
  /\ err = "none"
  /\ attrs = {}
  /\ folded = FALSE
  /\ FiddleIdle
  /\ defs = NoDefs
  /\ \E w \in JoinInputs :
       \/ \E op \in {"join_values", "flatten_variable"} :
            pure = [op |-> op, arg |-> w, typ |-> "", done |-> FALSE,
                    out |-> ANY]
       \/ \E typ \in AtomicTypes :
            pure = [op |-> "get_atomic_constant", arg |-> w, typ |-> typ,
                    done |-> FALSE, out |-> ANY]

apply_join_values ==
  /\ pure.op = "join_values" /\ ~pure.done
  /\ pure' = [pure EXCEPT !.done = TRUE, !.out = join_values(pure.arg)]
  /\ UNCHANGED <<fiddle, defs, frames, runstack, err, depths, prog, codes, attrs,
                  folded>>

apply_flatten_variable ==
  /\ pure.op = "flatten_variable" /\ ~pure.done
  /\ pure' = [pure EXCEPT !.done = TRUE,
                          !.out = flatten_variable(Variable(pure.arg, NoName))]
  /\ UNCHANGED <<fiddle, defs, frames, runstack, err, depths, prog, codes, attrs,
                  folded>>

apply_get_atomic_constant ==
  /\ pure.op = "get_atomic_constant" /\ ~pure.done
  /\ pure' = [pure EXCEPT
                !.done = TRUE,
                !.out = get_atomic_constant(Variable(pure.arg, NoName),
                                            pure.typ)]
  /\ UNCHANGED <<fiddle, defs, frames, runstack, err, depths, prog, codes, attrs,
                  folded>>

PureNext ==
  apply_join_values \/ apply_flatten_variable \/ apply_get_atomic_constant

PureSpec == PureInit /\ [][PureNext]_vars

----------------------------------------------------------------------------
(* The fiddle overlay (pytype/overlays/fiddle_overlay.py) *)

\* Bounds of the model of the overlay: the depth at which Python gives up a
\* recursion, and the number of calls into the overlay that are followed.
RecursionLimit == 3
MaxCalls == 2

Field(name, typ, default) == [name |-> name, typ |-> typ, default |-> default]

\* The classes of the analysed program.  Simple and Complex are dataclasses
\* of the source, PyiSimple is a dataclass of a stub, Node a dataclass with a
\* field of its own type, Ping and Pong dataclasses with a field of each
\* other's type, Regular a class that is no dataclass.
FiddleClasses ==
  {"Simple", "Complex", "PyiSimple", "Node", "Ping", "Pong", "Regular",
   "int", "str"}

PytdClasses == {"PyiSimple"}

\* template.metadata["__dataclass_fields__"], for the classes that have it.
dataclass_fields(typ) ==
  CASE typ \in {"Simple", "PyiSimple"} ->
         <<Field("x", "int", "none"), Field("y", "str", "none")>>
    [] typ = "Complex" ->
         <<Field("x", "Simple", "none"), Field("y", "str", "none")>>
    [] typ = "Node" -> <<Field("next", "Node", "none")>>
    [] typ = "Ping" -> <<Field("x", "int", "none"), Field("peer", "Pong", "none")>>
    [] typ = "Pong" -> <<Field("peer", "Ping", "none")>>

\* The values a Config or Partial is built over: the classes and a function.
Templates == {"Simple", "Complex", "PyiSimple", "Node", "Ping", "Regular",
              "data_builder"}

_is_dataclass(typ) == typ \in FiddleClasses /\ typ \in Dataclasses

\* BuildableBuilder.generate_name: the counter belongs to the builder class
\* it is called on; the name "Config_1" is the pair <<"Config", 1>>.
generate_name(index, builder) ==
  [index |-> [index EXCEPT ![builder] = @ + 1],
   name |-> <<builder, index[builder] + 1>>]

\* Config / Partial: the class generated for a template.  `oid` is the
\* identity of the object, its place among the classes generated.
Buildable(fiddle_type_name, name, fields, oid) ==
  [tag |-> "Buildable", fiddle_type_name |-> fiddle_type_name,
   name |-> name, fields |-> fields, underlying |-> "None", oid |-> oid]

FiddleUnion(options) == [tag |-> "Union", options |-> options]

\* make_buildable and _convert_type, on the state st = [cache, index,
\* generated] of the overlay; `depth` is the depth of the Python call.
RECURSIVE make_buildable(_, _, _, _)
RECURSIVE _convert_type(_, _, _)
RECURSIVE convert_fields(_, _, _)

_convert_type(typ, st, depth) ==
  IF _is_dataclass(typ)
    THEN LET r == make_buildable("Config", typ, st, depth + 1)
         IN [r EXCEPT !.ret = FiddleUnion(<<r.ret, typ>>)]
  ELSE [exc |-> "none", ret |-> typ, st |-> st]

\* The list comprehension over the fields of the template, in order.
convert_fields(fields, st, depth) ==
  IF fields = <<>> THEN [exc |-> "none", ret |-> <<>>, st |-> st]
  ELSE LET x == Head(fields)
           r == _convert_type(x.typ, st, depth)
       IN IF r.exc # "none" THEN r
          ELSE LET rest == convert_fields(Tail(fields), r.st, depth)
               IN IF rest.exc # "none" THEN rest
                  ELSE [rest EXCEPT
                          !.ret = <<Field(x.name, r.ret, x.default)>> \o @]

\* A make_buildable that generates a class at every call, for comparison.
make_buildable_uncached(subclass_name, template, st, depth) ==
  IF subclass_name \notin {"Config", "Partial"}
    THEN [exc |-> "ValueError", ret |-> "None", st |-> st]
  ELSE IF _is_dataclass(template)
    THEN LET g == generate_name(st.index, subclass_name)
             cls == [Buildable(subclass_name, g.name, <<>>,
                               Len(st.generated) + 1)
                       EXCEPT !.underlying = template]
         IN [exc |-> "none", ret |-> cls,
             st |-> [cache |-> [key \in DOMAIN st.cache
                                        \cup {<<template, subclass_name>>} |->
                                  IF key = <<template, subclass_name>>
                                    THEN cls ELSE st.cache[key]],
                     index |-> g.index,
                     generated |-> Append(st.generated, cls)]]
  ELSE [exc |-> "none", ret |-> ANY, st |-> st]

make_buildable(subclass_name, template, st, depth) ==
  IF depth > RecursionLimit
    THEN [exc |-> "RecursionError", ret |-> "None", st |-> st]
  ELSE IF subclass_name \notin {"Config", "Partial"}
    THEN [exc |-> "ValueError", ret |-> "None", st |-> st]
  ELSE IF <<template, subclass_name>> \in DOMAIN st.cache
    THEN [exc |-> "none", ret |-> st.cache[<<template, subclass_name>>],
          st |-> st]
  ELSE IF _is_dataclass(template)
    THEN LET fields == convert_fields(dataclass_fields(template), st, depth)
         IN IF fields.exc # "none" THEN fields
            ELSE LET g == generate_name(fields.st.index, subclass_name)
                     cls == [Buildable(subclass_name, g.name, fields.ret,
                                       Len(fields.st.generated) + 1)
                               EXCEPT !.underlying = template]
                 IN [exc |-> "none", ret |-> cls,
                     st |-> [cache |->
                               [key \in DOMAIN fields.st.cache
                                      \cup {<<template, subclass_name>>} |->
                                  IF key = <<template, subclass_name>>
                                    THEN cls ELSE fields.st.cache[key]],
                             index |-> g.index,
                             generated |-> Append(fields.st.generated, cls)]]
  ELSE [exc |-> "none", ret |-> ANY, st |-> st]

\* The parameters of the __init__ of a dataclass, and their types.
init_params(template) ==
  <<"self">> \o [i \in DOMAIN dataclass_fields(template) |->
                   dataclass_fields(template)[i].name]

param_type(template, name) ==
  LET fields == dataclass_fields(template)
  IN fields[CHOOSE i \in DOMAIN fields : fields[i].name = name].typ

\* The match of the arguments of a call against the signature of __init__:
\* the error of the call, "none" if they match.  An argument is given by its
\* type; the first positional argument stands for self; `optional` are the
\* parameters that may be left out.
match_args(template, posargs, namedargs, optional) ==
  LET params == init_params(template)
  IN IF Len(posargs) > Len(params) THEN "wrong-arg-count"
     ELSE IF \E k \in DOMAIN namedargs : k \notin SeqToSet(params)
       THEN "wrong-keyword-args"
     ELSE IF \/ \E i \in 2..Len(posargs) :
                  posargs[i] # param_type(template, params[i])
             \/ \E k \in DOMAIN namedargs :
                  namedargs[k] # param_type(template, k)
       THEN "wrong-arg-types"
     ELSE IF \E i \in (Len(posargs) + 1)..Len(params) :
               params[i] \notin DOMAIN namedargs /\ params[i] \notin optional
       THEN "missing-parameter"
     ELSE "none"

\* _match_pytd_init: a failed match is caught and logged.  The signature of
\* a stub's dataclass is matched as the analysis of the stubs' users expects
\* it: a parameter left out is no error.
_match_pytd_init(template, posargs, namedargs, log) ==
  LET e == match_args(template, posargs, namedargs,
                      SeqToSet(init_params(template)))
  IN IF e # "none" THEN Append(log, e) ELSE log

\* A matcher that leaves the defaults of the signature alone, for
\* comparison.
_match_interpreter_init_strict(template, posargs, namedargs, dflt, log) ==
  LET e == match_args(template, posargs, namedargs, dflt[template])
  IN [defaults |-> dflt,
      log |-> IF e # "none" THEN Append(log, e) ELSE log]

\* _match_interpreter_init: every parameter is given a default, then the
\* function is called, which logs a failed match.
_match_interpreter_init(template, posargs, namedargs, dflt, log) ==
  LET given == [dflt EXCEPT ![template] = SeqToSet(init_params(template))]
      e == match_args(template, posargs, namedargs, given[template])
  IN [defaults |-> given,
      log |-> IF e # "none" THEN Append(log, e) ELSE log]

\* ret.instantiate(node): an instance of the class; Any stays Any.
instantiate(ret) ==
  IF ret = ANY THEN ANY ELSE [tag |-> "Instance", cls |-> ret]

\* BuildableBuilder.new_slot: Config(template, *extra, **kwargs).
new_slot(builder, template, extra, kwargs, st, dflt, log) ==
  LET posargs == <<template>> \o extra
      check == Len(posargs) > 1 \/ DOMAIN kwargs # {}
      m == IF check /\ _is_dataclass(template)
             THEN IF template \in PytdClasses
                    THEN [defaults |-> dflt,
                          log |-> _match_pytd_init(template, posargs, kwargs,
                                                   log)]
                  ELSE _match_interpreter_init(template, posargs, kwargs,
                                               dflt, log)
           ELSE [defaults |-> dflt, log |-> log]
      r == make_buildable(builder, template, st, 1)
  IN [exc |-> r.exc,
      ret |-> IF r.exc = "none" THEN instantiate(r.ret) ELSE "None",
      st |-> r.st, defaults |-> m.defaults, log |-> m.log]

\* The state of the overlay, as the operators above take it.
FiddleState ==
  [cache |-> _INSTANCE_CACHE, index |-> _NAME_INDEX, generated |-> generated]

FiddleInit ==
  /\ prog = "m_names"
  /\ codes = [code \in CodeIds |-> Instrs(code)]
  /\ depths = [init_maximum_depth |-> INIT_MAXIMUM_DEPTH,
               maximum_depth |-> MAXIMUM_DEPTH]
  /\ frames = <<make_module_frame(prog, ModuleGlobals).frame>>
  /\ runstack = <<>>
  /\ err = "none"
  /\ attrs = {}
  /\ folded = FALSE
  /\ pure = [op |-> "none"]
  /\ FiddleIdle
  /\ defs = NoDefs

\* The subclass names make_buildable is called with: the two of the
\* builders, and one that is neither.
SubclassNames == {"Config", "Partial", "Buildable"}

\* The extra arguments of the calls Config(template, ...): none, and those
\* of the tests, each argument given by its type.
NoKwargs == [k \in {} |-> "int"]

ArgCases ==
  {[extra |-> <<>>, kwargs |-> NoKwargs],
   [extra |-> <<>>, kwargs |-> [k \in {"x", "y"} |->
                                  IF k = "x" THEN "int" ELSE "str"]],
   [extra |-> <<"int">>, kwargs |-> [k \in {"y"} |-> "str"]],
   [extra |-> <<>>, kwargs |-> [k \in {"x", "y"} |-> "str"]],
   [extra |-> <<>>, kwargs |-> [k \in {"x"} |-> "int"]],
   [extra |-> <<>>, kwargs |-> [k \in {"x", "z"} |-> "int"]],
   [extra |-> <<"int", "str", "int">>, kwargs |-> NoKwargs]}

\* A call of make_buildable.
call_make_buildable ==
  /\ result.n < MaxCalls
  /\ \E subclass_name \in SubclassNames, template \in Templates :
       LET r == make_buildable(subclass_name, template, FiddleState, 1)
       IN /\ _INSTANCE_CACHE' = r.st.cache
          /\ _NAME_INDEX' = r.st.index
          /\ generated' = r.st.generated
          /\ result' = [op |-> "make_buildable", n |-> result.n + 1,
                        subclass_name |-> subclass_name,
                        template |-> template, exc |-> r.exc, ret |-> r.ret]
  /\ UNCHANGED <<defaults, errorlog, frames, runstack, err, depths, prog,
                 codes, attrs, folded, pure, defs>>

\* fiddle.Config(template, ...) and fiddle.Partial(template, ...).
call_new_slot ==
  /\ result.n < MaxCalls
  /\ \E builder \in {"Config", "Partial"}, template \in Templates,
        args \in ArgCases :
       LET r == new_slot(builder, template, args.extra, args.kwargs,
                         FiddleState, defaults, errorlog)
       IN /\ _INSTANCE_CACHE' = r.st.cache
          /\ _NAME_INDEX' = r.st.index
          /\ generated' = r.st.generated
          /\ defaults' = r.defaults
          /\ errorlog' = r.log
          /\ result' = [op |-> "new_slot", n |-> result.n + 1,
                        subclass_name |-> builder, template |-> template,
                        args |-> args, exc |-> r.exc, ret |-> r.ret]
  /\ UNCHANGED <<frames, runstack, err, depths, prog, codes, attrs, folded,
                 pure, defs>>

\* BuildableBuilder.getitem_slot: fiddle.Config[template].
call_getitem_slot ==
  /\ result.n < MaxCalls
  /\ \E builder \in {"Config", "Partial"}, template \in Templates :
       LET r == make_buildable(builder, template, FiddleState, 1)
       IN /\ _INSTANCE_CACHE' = r.st.cache
          /\ _NAME_INDEX' = r.st.index
          /\ generated' = r.st.generated
          /\ result' = [op |-> "getitem_slot", n |-> result.n + 1,
                        subclass_name |-> builder, template |-> template,
                        exc |-> r.exc,
                        ret |-> IF r.exc = "none" THEN to_variable(r.ret)
                                ELSE "None"]
  /\ UNCHANGED <<defaults, errorlog, frames, runstack, err, depths, prog,
                 codes, attrs, folded, pure, defs>>

FiddleNext == call_make_buildable \/ call_new_slot \/ call_getitem_slot

FiddleSpec == FiddleInit /\ [][FiddleNext]_vars

----------------------------------------------------------------------------
(* Properties *)

\* The names and the Variables the properties try the loads and stores on.
ProbeNames ==
  {N(x) : x \in {"y", "g", "a", "b", "t", "x", "print", "undefined",
                 "__name__", "rec", "inner"}} \cup {<<"t", "a">>}

ProbeVars == {to_variable(ANY), to_variable(PythonConstant("int", "1"))}

FrameIds == DOMAIN frames

\* The step is handler `op` of the running frame, ended without exception.
Handled(op) ==
  Stepping /\ Instr.op = op /\ err' = "none" /\ frames'[cur].pc = F.pc + 1

\* The step is the end of run() of the running frame, whose creating frame
\* is still running.
FoldsBack ==
  /\ err = "none" /\ runstack # <<>> /\ Consumed(F) /\ ~F.has_final
  /\ frames'[cur].has_final
  /\ F.f_back # 0 /\ ~frames[F.f_back].has_final

\* C1, in the frame of the write: a read of a free variable the frame has
\* written returns the Variable the frame holds for it.
C1_ReadsOwnWrite ==
  \A i \in FrameIds : \A y \in frames[i].shadowed_enclosing :
    frames[i].live =>
      /\ load_deref(frames[i], y) = Ret(with_name(frames[i].locals[y], y))
      /\ load_enclosing(frames[i], y) = load_deref(frames[i], y)

\* C1, the write: STORE_DEREF of a name of the enclosing snapshot makes the
\* stored Variable what load_deref and load_enclosing return.
C1_WriteIsRead ==
  Handled("STORE_DEREF") /\ N(Instr.s) \in DOMAIN F.initial_enclosing =>
    /\ N(Instr.s) \in frames'[cur].shadowed_enclosing
    /\ load_deref(frames'[cur], N(Instr.s))
         = Ret(with_name(Top(F), N(Instr.s)))
    /\ load_enclosing(frames'[cur], N(Instr.s))
         = Ret(with_name(Top(F), N(Instr.s)))

\* C1, later reads: what a frame reads for a name it shadows changes only by
\* a store to that name in the frame or by a fold-back into the frame.
C1_ReadIsStable ==
  \A i \in FrameIds : \A y \in frames[i].shadowed_enclosing :
    /\ frames[i].live /\ frames'[i].live
    /\ load_deref(frames'[i], y) # load_deref(frames[i], y)
    => \/ /\ i = cur /\ Stepping
          /\ Instr.op \in {"STORE_DEREF", "STORE_FAST", "STORE_NAME",
                           "STORE_GLOBAL"}
          /\ N(Instr.s) = y
       \/ FoldsBack /\ F.f_back = i

\* C1, the fold-back: when the frame finalizes, the creating frame reads the
\* frame's final Variable for every free variable the frame has written.
C1_FoldBack ==
  FoldsBack =>
    \A y \in F.shadowed_enclosing :
      load_deref(frames'[F.f_back], y) = Ret(with_name(F.locals[y], y))

\* C1: scope shadowing of a free variable: after store_deref(y, v) the frame
\* reads v for y, not the enclosing snapshot, and once the frame has
\* finalized its still running creating frame reads the frame's final
\* Variable for y.
C1_ScopeShadowing ==
  /\ []C1_ReadsOwnWrite
  /\ [][C1_WriteIsRead /\ C1_ReadIsStable /\ C1_FoldBack]_vars

\* A finalized frame wrote y, other than its snapshot of y, and its running
\* creating frame reads what it wrote.
C1_Witness ==
  \E i \in FrameIds :
    /\ frames[i].has_final /\ N("y") \in frames[i].shadowed_enclosing
    /\ frames[i].locals[N("y")] # frames[i].initial_enclosing[N("y")]
    /\ frames[i].f_back # 0 /\ frames[frames[i].f_back].live
    /\ load_deref(frames[frames[i].f_back], N("y"))
         = Ret(with_name(frames[i].locals[N("y")], N("y")))

EnclosingRead(i, name) == load_enclosing(frames[i], name)

\* The step creates a frame (make_child_frame).
CreatesFrame == Len(frames') = Len(frames) + 1

\* C2, at creation: the child's enclosing snapshot holds, for every name of
\* the function's enclosing scope, what the creating frame holds for it then.
C2_Captured ==
  CreatesFrame =>
    LET new == frames'[Len(frames')]
        parent == frames[new.f_back]
    IN \A n \in DOMAIN new.initial_enclosing :
         load_enclosing(new, n) =
           Ret(with_name(IF n \in DOMAIN parent.locals THEN parent.locals[n]
                         ELSE parent.initial_enclosing[n], n))

\* C2, afterwards: whatever step is taken, what a frame reads for a name of
\* its snapshot that it has not written stays the same.
C2_Unchanged ==
  \A i \in FrameIds : \A n \in DOMAIN frames[i].initial_enclosing :
    n \notin frames[i].shadowed_enclosing
    /\ n \notin frames'[i].shadowed_enclosing
    => EnclosingRead(i, n)' = EnclosingRead(i, n)

\* C2: a read of a free variable the frame has not written returns the
\* enclosing snapshot captured by make_child_frame at the frame's creation,
\* whatever the creating frame stores to the name afterwards.
C2_SnapshotIsFixed == [][C2_Captured /\ C2_Unchanged]_vars

\* A frame reads its snapshot of y while its creating frame holds another
\* Variable for y.
C2_Witness ==
  \E i \in FrameIds :
    /\ frames[i].f_back # 0
    /\ N("y") \in DOMAIN frames[i].initial_enclosing
    /\ N("y") \notin frames[i].shadowed_enclosing
    /\ N("y") \in DOMAIN frames[frames[i].f_back].locals
    /\ frames[frames[i].f_back].locals[N("y")].bindings
         # frames[i].initial_enclosing[N("y")].bindings
    /\ load_enclosing(frames[i], N("y"))
         = Ret(with_name(frames[i].initial_enclosing[N("y")], N("y")))

\* C3, the write: STORE_GLOBAL in a non-module frame marks the name as
\* shadowing the global and makes the stored Variable what load_global
\* returns.
C3_WriteIsRead ==
  Handled("STORE_GLOBAL") /\ ~_is_module_frame(F) =>
    /\ N(Instr.s) \in frames'[cur].shadowed_globals
    /\ load_global(frames'[cur], N(Instr.s))
         = Ret(with_name(Top(F), N(Instr.s)))

\* C3, later reads: a non-module frame reads the Variable it holds for a
\* name it has marked, not its snapshot of the globals.
C3_ReadsOwnWrite ==
  \A i \in FrameIds : \A n \in frames[i].shadowed_globals :
    frames[i].live /\ ~_is_module_frame(frames[i]) =>
      load_global(frames[i], n) = Ret(with_name(frames[i].locals[n], n))

\* C3, the fold-back: the final Variable of every marked name is stored in
\* the still running creating frame as store_global stores it.
C3_FoldBack ==
  FoldsBack =>
    \A n \in F.shadowed_globals :
      /\ n \in frames'[F.f_back].shadowed_globals
      /\ frames'[F.f_back].locals[n] = F.locals[n]
      /\ load_global(frames'[F.f_back], n) = Ret(with_name(F.locals[n], n))

\* C3: a global write in a non-module frame marks the name shadowing-global,
\* is what load_global returns in the frame from then on, and is written to
\* the still running creating frame with store_global at finalization.
C3_GlobalWrite ==
  /\ []C3_ReadsOwnWrite
  /\ [][C3_WriteIsRead /\ C3_FoldBack]_vars

\* A running non-module frame got g by the fold-back of a frame it called,
\* and reads it instead of its snapshot of g.
C3_Witness ==
  \E i, j \in FrameIds :
    /\ frames[j].has_final /\ frames[j].f_back = i
    /\ N("g") \in frames[j].shadowed_globals
    /\ frames[i].live /\ ~_is_module_frame(frames[i])
    /\ N("g") \in frames[i].shadowed_globals
    /\ load_global(frames[i], N("g"))
         = Ret(with_name(frames[j].locals[N("g")], N("g")))
    /\ load_global(frames[i], N("g")).var.bindings
         # frames[i].initial_globals[N("g")].bindings

\* The tiers of a bare-name lookup.
LocalTier(f, n) ==
  /\ n \in DOMAIN f.locals
  /\ n \notin f.shadowed_enclosing
  /\ (n \in f.shadowed_globals => f.name = "__main__")

GlobalTier(f, n) ==
  IF f.name = "__main__" \/ n \in f.shadowed_globals
    THEN n \in DOMAIN f.locals
  ELSE n \in DOMAIN f.initial_globals

GlobalTierVar(f, n) ==
  IF f.name = "__main__" \/ n \in f.shadowed_globals THEN f.locals[n]
  ELSE f.initial_globals[n]

ExpectedName(f, n) ==
  IF LocalTier(f, n) THEN Ret(with_name(f.locals[n], n))
  ELSE IF GlobalTier(f, n) THEN Ret(with_name(GlobalTierVar(f, n), n))
  ELSE IF n \in {N(b) : b \in BuiltinNames}
    THEN Ret(Variable(<<PytdFunction(n[1])>>, n))
  ELSE Raise("KeyError")

\* C4, the lookup in any running frame, for any name.
C4_Lookup ==
  \A i \in FrameIds : \A n \in ProbeNames :
    frames[i].live => load_name(frames[i], n) = ExpectedName(frames[i], n)

\* C4, the instruction: LOAD_NAME pushes what the lookup finds, and the
\* failure of the lookup ends the analysis with its exception.
C4_Pushes ==
  Stepping /\ Instr.op = "LOAD_NAME" =>
    LET e == ExpectedName(F, N(Instr.s)) IN
    IF e.ok
      THEN /\ err' = "none"
           /\ frames'[cur].stack = Append(F.stack, e.var)
    ELSE err' = e.exc /\ frames' = frames

\* C4: LOAD_NAME resolves a bare name in the local scope (a local binding
\* not marked as shadowing an outer name), then the global scope, then the
\* builtins, whose failure propagates.
C4_NameLookupOrder == []C4_Lookup /\ [][C4_Pushes]_vars

\* A class body has read g from the globals (a), then its own g (b), and a
\* builtin (p).
C4_Witness ==
  \E i \in FrameIds :
    /\ frames[i].code = "body"
    /\ {N("a"), N("b"), N("p")} \subseteq DOMAIN frames[i].locals
    /\ frames[i].locals[N("a")].bindings
         = frames[i].initial_globals[N("g")].bindings
    /\ frames[i].locals[N("b")].bindings = frames[i].locals[N("g")].bindings
    /\ frames[i].locals[N("g")].bindings
         # frames[i].initial_globals[N("g")].bindings
    /\ frames[i].locals[N("p")].bindings = <<PytdFunction("print")>>

\* C5: the module frame has one scope tier: it starts with its locals equal
\* to its globals, and load_local and load_global return the same Variable
\* for every name bound in it, also after store_global.
C5_ModuleFrameOneTier ==
  \A i \in FrameIds :
    frames[i].f_back = 0 =>
      /\ frames[i].locals_order = <<>> =>
           frames[i].locals = frames[i].initial_globals
      /\ frames[i].live =>
           \A n \in DOMAIN frames[i].locals :
             /\ load_local(frames[i], n).ok
             /\ load_local(frames[i], n) = load_global(frames[i], n)

\* The running module frame has stored a and b with STORE_GLOBAL and reads
\* them with load_local.
C5_Witness ==
  /\ frames[1].live
  /\ {N("a"), N("b")} \subseteq frames[1].shadowed_globals
  /\ load_local(frames[1], N("b")).ok
  /\ load_local(frames[1], N("a")) = load_global(frames[1], N("a"))

\* Every store on frame f raises for name n.
StoresRaise(f, n) ==
  \A v \in ProbeVars :
    /\ ~store_local(f, n, v).ok
    /\ ~store_enclosing(f, n, v).ok
    /\ ~store_global(f, n, v).ok
    /\ ~store_deref(f, n, v).ok

\* final_locals of a finalized frame is left alone by every step.
C6_FinalLocalsFrozen ==
  \A i \in FrameIds :
    frames[i].has_final =>
      /\ frames'[i].has_final
      /\ frames'[i].final_locals = frames[i].final_locals

\* On a finalized frame all eight calls raise for every name.
C6_EveryCallRaises ==
  \A i \in FrameIds : \A n \in ProbeNames :
    frames[i].has_final =>
      /\ StoresRaise(frames[i], n)
      /\ ~load_local(frames[i], n).ok
      /\ ~load_enclosing(frames[i], n).ok
      /\ ~load_global(frames[i], n).ok
      /\ ~load_deref(frames[i], n).ok

\* C6 as stated: once a frame is finalized, store_local, store_enclosing,
\* store_global, store_deref, load_local, load_enclosing, load_global and
\* load_deref each raise for every name, and final_locals never changes.
C6_AllCallsFail == []C6_EveryCallRaises /\ [][C6_FinalLocalsFrozen]_vars

\* On a finalized frame the calls that reach the cleared state raise; the
\* reads answered by the snapshots or the builtins are still answered.
C6_StateCallsRaise ==
  \A i \in FrameIds : \A n \in ProbeNames :
    LET f == frames[i]
        in_enclosing == n \notin f.shadowed_enclosing
                        /\ n \in DOMAIN f.initial_enclosing
        marked_global == f.name # "__main__" /\ n \in f.shadowed_globals
    IN f.has_final =>
         /\ StoresRaise(f, n)
         /\ ~load_local(f, n).ok
         /\ load_enclosing(f, n) =
              IF in_enclosing THEN Ret(with_name(f.initial_enclosing[n], n))
              ELSE IF n \in f.shadowed_enclosing THEN Raise("AttributeError")
              ELSE Raise("KeyError")
         /\ load_global(f, n) =
              IF f.name = "__main__" \/ marked_global
                THEN Raise("AttributeError")
              ELSE IF n \in DOMAIN f.initial_globals
                THEN Ret(with_name(f.initial_globals[n], n))
              ELSE load_builtin(n)
         /\ load_deref(f, n).ok <=> marked_global /\ in_enclosing

\* C6, amended: once a frame is finalized, the four stores and load_local
\* raise for every name; load_enclosing, load_global and load_deref raise
\* whenever they reach the cleared state, and otherwise still return the
\* entry of the enclosing snapshot, of the globals snapshot or the builtin;
\* final_locals never changes.
C6_Finalized == []C6_StateCallsRaise /\ [][C6_FinalLocalsFrozen]_vars

\* A finalized function frame rejects a store and a local read of y, and
\* still reads y from its enclosing snapshot and print from the builtins.
C6_Witness ==
  \E i \in FrameIds :
    /\ frames[i].has_final /\ frames[i].f_back # 0
    /\ StoresRaise(frames[i], N("y"))
    /\ ~load_local(frames[i], N("y")).ok
    /\ load_enclosing(frames[i], N("y")).ok
    /\ load_global(frames[i], N("print")).ok
    /\ \E j \in FrameIds : frames[j].live /\ j # i

\* The join of a sequence of values: Any, the value, or the Union of the
\* distinct values.
JoinOf(values) ==
  IF Len(values) = 0 THEN ANY
  ELSE IF Len(values) = 1 THEN values[1]
  ELSE [tag |-> "Union", options |-> {values[k] : k \in DOMAIN values}]

Joined(var) == JoinOf(var.bindings)

\* C7: final_locals is None in every state before the instruction stream is
\* exhausted; after finalization it maps exactly the names of the frame's
\* final local bindings, each to the join of that name's values; the module
\* that stores the constant 1 to a ends with a bound to that constant.
C7_FinalLocals ==
  \A i \in FrameIds :
    LET f == frames[i] IN
    /\ ~Consumed(f) => ~f.has_final /\ f.final_locals = EmptyMap
    /\ f.has_final =>
         /\ DOMAIN f.final_locals = DOMAIN f.locals
         /\ \A n \in DOMAIN f.locals : f.final_locals[n] = Joined(f.locals[n])
         /\ f.code = "m_names" =>
              f.final_locals[N("a")] = PythonConstant("int", "1")

\* The module that stores 1 to a is finalized, with its own names next to
\* the module globals it started with.
C7_Witness ==
  /\ prog = "m_names" /\ frames[1].has_final
  /\ frames[1].final_locals[N("a")] = PythonConstant("int", "1")
  /\ frames[1].final_locals[N("b")] = PythonConstant("int", "2")
  /\ N("__name__") \in DOMAIN frames[1].final_locals

\* The step is the end of run() of the running frame.
EndsRun == err = "none" /\ runstack # <<>> /\ Consumed(F) /\ ~F.has_final

\* C8, in every state: a frame that has not executed its first instruction
\* has an empty stack, and so has a frame that run() has returned from.
C8_EmptyAtEnds ==
  \A i \in FrameIds :
    /\ frames[i].pc = 1 /\ ~frames[i].call.active => frames[i].stack = <<>>
    /\ frames[i].has_final => frames[i].stack = <<>>

\* C8, at the end of run(): a stream that leaves values on the stack is not
\* accepted, run() fails its assertion and the frame is not finalized.
C8_Refuses ==
  EndsRun /\ F.stack # <<>> =>
    err' = "AssertionError" /\ ~frames'[cur].has_final

\* C8: for every frame that is run, the operand stack is empty before the
\* first instruction and after the last, for every instruction stream the
\* frame accepts.
C8_StackEmptyAtEnds == []C8_EmptyAtEnds /\ [][C8_Refuses]_vars

\* A frame that pushed and popped values, and returned one, is finalized
\* with an empty stack.
C8_Witness ==
  \E i \in FrameIds :
    /\ frames[i].has_final /\ frames[i].returns # <<>>
    /\ frames[i].stack = <<>>
    /\ frames[i].locals_order # <<>>

\* C9: when the self-recursive function is simulated with maximum call
\* depth N (init_maximum_depth, the module being loaded), at most N frames
\* are nested under the module frame at any time.
C9_DepthBound ==
  prog = "m_rec" => Len(runstack) - 1 <= depths.init_maximum_depth

Joins == pure.op \in {"join_values", "flatten_variable"} /\ pure.done

\* C11, the three cases.
C11_Cases == Joins => pure.out = JoinOf(pure.arg)

\* C11, the independence: every sequence of the same values, in any order
\* and with any repetition, has the same join.
C11_SameForSameValues ==
  Joins =>
    \A w \in JoinInputs :
      SeqToSet(w) = SeqToSet(pure.arg) =>
        /\ join_values(w) = pure.out
        /\ flatten_variable(Variable(w, NoName)) = pure.out

ExpectedConstant(var, typ) ==
  IF Len(var.bindings) # 1 THEN Raise("ValueError")
  ELSE LET v == var.bindings[1] IN
       IF v.tag # "PythonConstant" THEN Raise("ValueError")
       ELSE IF typ = "" \/ v.typ = typ \/ (v.typ = "bool" /\ typ = "int")
         THEN Ret([typ |-> v.typ, c |-> v.c])
       ELSE Raise("ValueError")

\* C12: get_atomic_constant(var, typ) fails when var has no or several
\* bindings or its value is no constant, fails when the constant's literal
\* is not of type typ, and returns the literal exactly when there is one
\* constant binding of the expected type (any type when typ is omitted).
C12_AtomicConstant ==
  pure.op = "get_atomic_constant" /\ pure.done =>
    pure.out = ExpectedConstant(Variable(pure.arg, NoName), pure.typ)

\* The literal of the one str constant has been returned where a str is
\* expected.
C12_Witness ==
  /\ pure.op = "get_atomic_constant" /\ pure.done
  /\ pure.arg = <<PythonConstant("str", "s")>> /\ pure.typ = "str"
  /\ pure.out = Ret([typ |-> "str", c |-> "s"])

StoreOps == {"STORE_NAME", "STORE_FAST", "STORE_GLOBAL", "STORE_DEREF"}

\* The two-way branches of a code object: the conditional jump at `jump`
\* runs cond+1..else-1, which ends with a jump to `join`, or else..join-1.
Branches(code) ==
  {[jump |-> j, else |-> Instrs(code)[j].n,
    join |-> Instrs(code)[Instrs(code)[j].n - 1].n] :
     j \in {k \in DOMAIN Instrs(code) :
              /\ Instrs(code)[k].op = "POP_JUMP_FORWARD_IF_FALSE"
              /\ Instrs(code)[Instrs(code)[k].n - 1].op = "JUMP_FORWARD"}}

\* The names written by the instructions lo..hi.
Written(code, lo, hi) ==
  {N(Instrs(code)[k].s) : k \in {m \in lo..hi : Instrs(code)[m].op \in StoreOps}}

\* The values that the last store to name in lo..hi stores: the constant,
\* or the values of the name loaded for it, which the paths of the code
\* objects here do not write themselves.
StoredValues(code, lo, hi, name, before) ==
  LET k == CHOOSE m \in lo..hi :
             /\ Instrs(code)[m].op \in StoreOps /\ N(Instrs(code)[m].s) = name
             /\ \A m2 \in (m + 1)..hi :
                  ~(Instrs(code)[m2].op \in StoreOps
                    /\ N(Instrs(code)[m2].s) = name)
      load == Instrs(code)[k - 1]
  IN IF load.op = "LOAD_CONST" THEN {PythonConstant(load.t, load.s)}
     ELSE IF N(load.s) \in DOMAIN before
       THEN SeqToSet(before[N(load.s)].bindings)
     ELSE {PytdFunction(load.s)}

\* Frame f has just reached the instruction where the paths of b meet.
AtJoin(f, b) == f.live /\ f.pc = b.join /\ b.else \in DOMAIN f.states

\* C17: where the two paths of a conditional jump meet, a name written on
\* neither path has exactly the Variable it had before the branch, and a
\* name written on both has the values written on the one and on the other.
C17_BranchThenJoin ==
  \A i \in FrameIds : \A b \in Branches(frames[i].code) :
    LET f == frames[i]
        before == f.states[b.else].locals
        w1 == Written(f.code, b.jump + 1, b.else - 1)
        w2 == Written(f.code, b.else, b.join - 1)
    IN AtJoin(f, b) =>
         /\ \A n \in (DOMAIN before) \ (w1 \cup w2) :
              n \in DOMAIN f.locals /\ f.locals[n] = before[n]
         /\ \A n \in w1 \cap w2 :
              SeqToSet(f.locals[n].bindings) =
                StoredValues(f.code, b.jump + 1, b.else - 1, n, before)
                \cup StoredValues(f.code, b.else, b.join - 1, n, before)

\* The module that writes z = 1 on one path and z = "s" on the other is
\* where the paths meet: z holds both values, x the one from before.
C17_Witness ==
  /\ prog = "m_branch" /\ frames[1].live /\ frames[1].pc = 10
  /\ SeqToSet(frames[1].locals[N("z")].bindings)
       = {PythonConstant("int", "1"), PythonConstant("str", "s")}
  /\ frames[1].locals[N("x")] = frames[1].states[8].locals[N("x")]
  /\ N("z") \notin DOMAIN frames[1].states[8].locals

\* The values of a sequence of Variables, one after the other.
RECURSIVE AllValues(_)
AllValues(variables) ==
  IF variables = <<>> THEN <<>>
  ELSE Head(variables).bindings \o AllValues(Tail(variables))

\* C13, the pops: CALL n takes the n arguments, the callable and the NULL
\* under it off the stack, and every value of the callable is to be called.
C13_Pops ==
  Stepping /\ Instr.op = "CALL" /\ err' = "none" =>
    /\ frames'[cur].stack = SubSeq(F.stack, 1, Len(F.stack) - (Instr.n + 2))
    /\ frames'[cur].call.active
    /\ frames'[cur].call.funcs = F.stack[Len(F.stack) - Instr.n].bindings
    /\ frames'[cur].call.posargs
         = SubSeq(F.stack, Len(F.stack) - Instr.n + 1, Len(F.stack))
    /\ frames'[cur].call.rets = <<>>

\* C13, the loop: while the call lasts the caller's stack is left alone and
\* each step either leaves the call as it is or moves on by one callable
\* value, adding its one result: Any for a native function, the join of
\* the returned values for an interpreter function.
C13_OneResultPerValue ==
  \A i \in FrameIds :
    frames[i].call.active /\ frames'[i].call.active =>
      /\ frames'[i].stack = frames[i].stack
      /\ \/ /\ frames'[i].call.funcs = frames[i].call.funcs
            /\ frames'[i].call.rets = frames[i].call.rets
         \/ /\ frames[i].call.funcs # <<>>
            /\ frames'[i].call.funcs = Tail(frames[i].call.funcs)
            /\ \E ret \in {frames'[i].call.rets[Len(frames'[i].call.rets)]} :
                 /\ frames'[i].call.rets = Append(frames[i].call.rets, ret)
                 /\ Head(frames[i].call.funcs).tag = "PytdFunction"
                      => ret = ANY
                 /\ Head(frames[i].call.funcs).tag
                      \in {"InterpreterFunction", "BoundFunction"}
                      => cur # i /\ frames'[cur].has_final
                         /\ ret = JoinOf(AllValues(F.returns))

\* C13, the push: one Variable, with one binding per result.
C13_Push ==
  Calling /\ F.call.funcs = <<>> =>
    /\ ~frames'[cur].call.active
    /\ frames'[cur].stack = Append(F.stack, Variable(F.call.rets, NoName))

\* C13: a call invokes every value of the callable Variable and pushes one
\* Variable with one result per callable value in place of the callable,
\* its arguments and the NULL marker.
C13_CallJoinsResults ==
  [][C13_Pops /\ C13_OneResultPerValue /\ C13_Push]_vars

\* g holds a function that returns 1 and the builtin print: the call of g
\* has left one Variable with the two results on the stack.
C13_Witness ==
  /\ prog = "m_callvar" /\ frames[1].live /\ ~frames[1].call.active
  /\ frames[1].pc = 15
  /\ frames[1].stack = <<Variable(<<PythonConstant("int", "1"), ANY>>, NoName)>>
  /\ Len(frames[1].locals[N("g")].bindings) = 2

\* A value that is no function, bound method, class or class builder.
NotCallable(v) ==
  v.tag \notin {"InterpreterFunction", "PytdFunction", "BoundFunction",
                "InterpreterClass", "BaseClass", "__build_class__"}

\* C14, when the loop reaches such a value: the call raises and the stack
\* is as it was.
C14_Raises ==
  Calling /\ F.call.funcs # <<>> /\ NotCallable(Head(F.call.funcs)) =>
    err' = "NotImplementedError" /\ frames' = frames

\* C14, before: a call with such a value among those still to call does
\* not end, so that nothing is pushed for it.
C14_NoPush ==
  \A i \in FrameIds :
    /\ frames[i].call.active
    /\ \E k \in DOMAIN frames[i].call.funcs :
         NotCallable(frames[i].call.funcs[k])
    => frames'[i].call.active /\ frames'[i].stack = frames[i].stack

\* C14: if a value of the callable Variable is neither a function, a bound
\* method, a class nor the class builder, the call raises the
\* unimplemented-call error and pushes no return Variable.
C14_UnimplementedCall == [][C14_Raises /\ C14_NoPush]_vars

\* g holds print and the constant 1: print has been called, the call of 1
\* has raised, and the stack holds no result.
C14_Witness ==
  /\ prog = "m_callmixed" /\ err = "NotImplementedError"
  /\ frames[1].call.active /\ frames[1].stack = <<>>
  /\ frames[1].call.rets = <<ANY>>
  /\ frames[1].call.funcs = <<PythonConstant("int", "1")>>

\* The code objects whose function is made for the class builder: the
\* compiler emits LOAD_BUILD_CLASS, LOAD_CONST <code>, MAKE_FUNCTION, with
\* a LOAD_CONST <qualified name> before MAKE_FUNCTION up to Python 3.10.
ClassBodyCodes ==
  {Instrs(c)[i + 1].s :
     <<c, i>> \in {<<d, j>> \in CodeIds \X (1..40) :
                     /\ j + 3 <= Len(Instrs(d))
                     /\ Instrs(d)[j].op = "LOAD_BUILD_CLASS"
                     /\ Instrs(d)[j + 1].t = "code"
                     /\ \/ Instrs(d)[j + 2].op = "MAKE_FUNCTION"
                        \/ /\ PythonVersion(d) = <<3, 10>>
                           /\ Instrs(d)[j + 3].op = "MAKE_FUNCTION"}}

\* The function values the frames hold in their locals and on their stacks.
FunctionsHeld ==
  {v \in UNION {SeqToSet(frames[i].stack[k].bindings) :
                  <<i, k>> \in {<<j, l>> \in (DOMAIN frames) \X (1..10) :
                                  l <= Len(frames[j].stack)}}
           \cup UNION {SeqToSet(frames[i].locals[n].bindings) :
                  <<i, n>> \in {<<j, o>> \in (DOMAIN frames) \X
                                  UNION {DOMAIN frames[q].locals :
                                           q \in DOMAIN frames} :
                                  o \in DOMAIN frames[j].locals}} :
     v.tag = "InterpreterFunction"}

\* C15, the instruction: the function MAKE_FUNCTION pushes is appended to
\* the frame's functions unless the entry under it is exactly the class
\* builder.
C15_Appends ==
  Stepping /\ Instr.op = "MAKE_FUNCTION" /\ err' = "none" =>
    LET stack == frames'[cur].stack
        func == stack[Len(stack)].bindings[1]
        class_body ==
          /\ Len(stack) > 1
          /\ has_atomic_value(stack[Len(stack) - 1], BUILD_CLASS)
    IN /\ func.tag = "InterpreterFunction" /\ func.parent = cur
       /\ class_body <=> func.code \in ClassBodyCodes
       /\ frames'[cur].functions
            = IF class_body THEN F.functions ELSE Append(F.functions, func)

\* C15, the lists: no class-body function is in a functions list, and a
\* function a frame holds that is not a class-body function is in the
\* functions of the frame that made it, once, and in no other.
C15_Lists ==
  /\ \A i \in DOMAIN frames : \A k \in DOMAIN frames[i].functions :
       /\ frames[i].functions[k].code \notin ClassBodyCodes
       /\ frames[i].functions[k].parent = i
  /\ \A fn \in FunctionsHeld :
       fn.code \notin ClassBodyCodes =>
         Cardinality({k \in DOMAIN frames[fn.parent].functions :
                        frames[fn.parent].functions[k] = fn}) = 1

\* C15: MAKE_FUNCTION lists the function in the creating frame unless it is
\* a class-body function; no class-body function is in any functions list
\* and every other function is once in the list of its creating frame.
C15_FunctionsList == [][C15_Appends]_vars /\ [](C15_Lists)

\* A class statement with a def in its body, while the body runs: the
\* class-body function is in no list, the method is in the list of the
\* class-body frame that made it.
C15_Witness ==
  /\ prog = "m_method" /\ Len(frames) = 2 /\ frames[1].call.building
  /\ frames[1].call.posargs[1].bindings[1].code \in ClassBodyCodes
  /\ frames[1].functions = <<>>
  /\ Len(frames[2].functions) = 1 /\ frames[2].functions[1].code = "setv"
  /\ frames[2].functions[1] \in FunctionsHeld

\* C16, the start: calling the class builder makes a child frame of the
\* calling frame for the class-body function and runs it.
C16_RunsBody ==
  Calling /\ F.call.funcs # <<>> /\ Head(F.call.funcs) = BUILD_CLASS
  /\ err' = "none" =>
    /\ Len(frames') = Len(frames) + 1
    /\ runstack' = Append(runstack, Len(frames'))
    /\ frames'[Len(frames')].code = F.call.posargs[1].bindings[1].code
    /\ frames'[Len(frames')].f_back = cur
    /\ frames'[Len(frames')].pc = 1 /\ frames'[Len(frames')].live
    /\ frames'[cur].call.funcs = F.call.funcs

\* C16, the end: when the class body's frame has run to its end it is
\* finalized, and the class made of it has its final_locals as members, its
\* functions and classes, and the string argument as name; the class is
\* appended to the classes of the calling frame and is the call's result.
C16_BuildsClass ==
  err = "none" /\ Len(runstack) > 1 /\ Consumed(F)
  /\ frames[runstack[Len(runstack) - 1]].call.building /\ err' = "none" =>
    LET c == runstack[Len(runstack) - 1]
        cls == frames'[c].call.rets[Len(frames'[c].call.rets)]
    IN /\ frames'[cur].has_final /\ ~frames'[cur].live
       /\ frames'[cur].final_locals
            = [n \in DOMAIN F.locals |-> JoinOf(F.locals[n].bindings)]
       /\ cls.tag = "InterpreterClass"
       /\ cls.members = frames'[cur].final_locals
       /\ cls.functions = F.functions /\ cls.classes = F.classes
       /\ Len(frames[c].call.posargs[2].bindings) = 1
       /\ frames[c].call.posargs[2].bindings[1]
            = PythonConstant("str", cls.name)
       /\ frames'[c].classes = Append(frames[c].classes, cls)
       /\ frames'[c].call.rets = Append(frames[c].call.rets, cls)
       /\ frames'[c].call.funcs = Tail(frames[c].call.funcs)
       /\ runstack' = SubSeq(runstack, 1, Len(runstack) - 1)

\* C16, the lists: a frame's classes are changed by nothing else.
C16_ClassesKept ==
  \A i \in DOMAIN frames :
    i \in DOMAIN frames' /\ frames'[i].classes # frames[i].classes =>
      frames[i].call.building /\ i = runstack[Len(runstack) - 1]

\* C16: the class builder runs the class body as a child frame to its
\* finalization; the class has the child's final_locals as members, the
\* child's functions and classes, and the atomic string argument as name;
\* it is appended to the creating frame's classes and returned by the call.
C16_ClassConstruction ==
  [][C16_RunsBody /\ C16_BuildsClass /\ C16_ClassesKept]_vars

\* class C with a member k and a method setv, bound to the name C: the
\* class is in the module frame's classes, and its members are the final
\* locals of the frame that ran its body.
C16_Witness ==
  /\ prog = "m_method" /\ Len(frames) = 2 /\ frames[1].live
  /\ N("C") \in DOMAIN frames[1].locals
  /\ frames[1].locals[N("C")].bindings = <<frames[1].classes[1]>>
  /\ frames[1].classes[1].name = "C"
  /\ frames[2].has_final
  /\ frames[1].classes[1].members = frames[2].final_locals
  /\ frames[1].classes[1].members[N("k")] = PythonConstant("int", "1")
  /\ frames[1].classes[1].functions = frames[2].functions
  /\ Len(frames[2].functions) = 1

\* The compound names "t.a" among the locals of f whose target t is a
\* local of f too.
AttributeWrites(f) ==
  {n \in DOMAIN f.locals :
     Len(n) > 1 /\ SubSeq(n, 1, Len(n) - 1) \in DOMAIN f.locals}

\* The attribute attr_name is set to value on target.
HasAttribute(at, target, attr_name, value) ==
  [target |-> target, attr |-> attr_name, value |-> value] \in at

\* The creating frame of f when the fold-back of f comes to the name n: the
\* names before n have been folded.
CreatingFrameAt(f, n) ==
  LET k == CHOOSE i \in DOMAIN f.locals_order : f.locals_order[i] = n
  IN merge_attributes(f, SubSeq(f.locals_order, 1, k - 1),
                      merge_start(f)).frame

\* C18, the fold-back: when a frame ends, for each of its attribute writes
\* "t.a": if the creating frame is still running and loads a local t with
\* the same values, "t.a" becomes a local of the creating frame with the
\* Variable as it is and the attributes of the values are not touched;
\* otherwise a is set to the joined value on every value of t.
C18_FoldsAttributeWrites ==
  err = "none" /\ runstack # <<>> /\ Consumed(F) /\ ~F.has_final
  /\ err' = "none" =>
    \A n \in AttributeWrites(F) :
      LET t == SubSeq(n, 1, Len(n) - 1)
          a == n[Len(n)]
          p == F.f_back
          running == p # 0 /\ ~frames[p].has_final
          same == /\ running /\ load_local(CreatingFrameAt(F, n), t).ok
                  /\ Values(load_local(CreatingFrameAt(F, n), t).var)
                       = Values(F.locals[t])
      IN IF same
           THEN /\ n \in DOMAIN frames'[p].locals
                /\ frames'[p].locals[n] = F.locals[n]
                /\ \A k \in DOMAIN F.locals[t].bindings :
                     {x \in attrs' : x.target = F.locals[t].bindings[k]}
                       = {x \in attrs : x.target = F.locals[t].bindings[k]}
         ELSE /\ \A k \in DOMAIN F.locals[t].bindings :
                   HasAttribute(attrs', F.locals[t].bindings[k], a,
                                JoinOf(F.locals[n].bindings))
              /\ running =>
                   /\ n \in DOMAIN frames'[p].locals
                        <=> n \in DOMAIN frames[p].locals
                   /\ n \in DOMAIN frames[p].locals
                        => frames'[p].locals[n] = frames[p].locals[n]

\* C18, the consequence: an attribute that a frame has set on the values of
\* a target is what LOAD_ATTR reads on them afterwards, when the reading
\* frame has no local of that compound name.
C18_ReadsAttribute ==
  Stepping /\ Instr.op = "LOAD_ATTR" /\ F.stack # <<>>
  /\ ~load_local(F, Append(Top(F).name, Instr.s)).ok
  /\ (\A k \in DOMAIN Top(F).bindings :
        \E x \in attrs : x.target = Top(F).bindings[k] /\ x.attr = Instr.s)
  => /\ err' = "none"
     /\ Len(frames'[cur].stack) = Len(F.stack)
     /\ LET got == frames'[cur].stack[Len(F.stack)].bindings
        IN /\ Len(got) = Len(Top(F).bindings)
           /\ \A j \in DOMAIN got :
                HasAttribute(attrs, Top(F).bindings[j], Instr.s, got[j])

\* C18: at finalization an attribute write "t.a" is folded into the
\* creating frame as the local "t.a" if that frame is running and has a
\* local t with the same values, and is set as attribute a on every value
\* of t otherwise; an attribute stored on self in a method is readable on
\* the instance afterwards.
C18_AttributeFoldBack ==
  [][C18_FoldsAttributeWrites /\ C18_ReadsAttribute]_vars

\* c.setv() has stored self.v = 1 in the method's frame, where self is no
\* local of the module: v is set on the instance, and r = c.v has read 1.
C18_Witness ==
  /\ prog = "m_method" /\ Len(frames) = 3 /\ frames[1].live
  /\ frames[3].has_final /\ N("self") \in DOMAIN frames[3].final_locals
  /\ <<"self", "v">> \in DOMAIN frames[3].final_locals
  /\ HasAttribute(attrs, frames[3].final_locals[N("self")], "v",
                  PythonConstant("int", "1"))
  /\ frames[1].locals[N("c")].bindings = <<frames[3].final_locals[N("self")]>>
  /\ <<"c", "v">> \notin DOMAIN frames[1].locals
  /\ N("r") \in DOMAIN frames[1].locals
  /\ frames[1].locals[N("r")].bindings = <<PythonConstant("int", "1")>>

\* run() has left its loop and is about to fold the frame back.
Finishing == err = "none" /\ runstack # <<>> /\ Consumed(F) /\ ~F.has_final

\* The orders in which the elements of a set can be visited.
Orders(S) ==
  {o \in [1..Cardinality(S) -> S] : \A i, j \in DOMAIN o : o[i] = o[j] => i = j}

\* _merge_nonlocals_into with its three loops visiting the names in the
\* orders given.
merge_in_order(f, names, enclosing, globals) ==
  LET a == merge_attributes(f, names, merge_start(f)) IN
  IF ~merge_start(f).has THEN a
  ELSE merge_globals(f, globals, merge_enclosing(f, enclosing, a))

\* What a fold-back leaves: the creating frame's bindings and shadowed
\* names, and the attributes of the values.
Outcome(m) ==
  [ok |-> m.ok,
   locals |-> IF m.has THEN m.frame.locals ELSE EmptyMap,
   shadowed_enclosing |-> IF m.has THEN m.frame.shadowed_enclosing ELSE {},
   shadowed_globals |-> IF m.has THEN m.frame.shadowed_globals ELSE {},
   attrs |-> m.attrs]

\* The place of a write in the order attribute, closure cell, global.
WriteRank(w) ==
  IF w[1] \in {"set_attribute", "store_local"} THEN 1
  ELSE IF w[1] = "store_deref" THEN 2 ELSE 3

\* C19, the order of the writes of a fold-back.
C19_Ordered ==
  Finishing =>
    LET log == _merge_nonlocals_into(F, merge_start(F)).log
    IN \A i, j \in DOMAIN log : i < j => WriteRank(log[i]) <= WriteRank(log[j])

\* C19, the order of the names: whichever way the loops visit the names, the
\* fold-back leaves the same.
C19_AnyOrder ==
  Finishing =>
    \A names \in Orders(AttributeWrites(F)) :
      \A enclosing \in Orders(F.shadowed_enclosing) :
        \A globals \in Orders(F.shadowed_globals) :
          Outcome(merge_in_order(F, names, enclosing, globals))
            = Outcome(_merge_nonlocals_into(F, merge_start(F)))

\* C19: a fold-back makes its attribute writes before its closure-cell
\* writes and these before its global writes, and what it leaves in the
\* creating frame does not depend on the number of values of the targets
\* nor on the order in which the names are visited.
C19_SideEffectOrdered == C19_Ordered /\ C19_AnyOrder

\* C20: folding a finished frame back a second time leaves the creating
\* frame's bindings, its shadowed names and the attributes of the values as
\* the first fold-back left them.
C20_Idempotent ==
  Finishing =>
    LET once == _merge_nonlocals_into(F, merge_start(F))
        twice == _merge_nonlocals_into(F, once)
    IN once.ok => Outcome(twice) = Outcome(once)

\* The values of a Variable that expose the attribute.
Exposing(at, var, attr_name) ==
  {k \in DOMAIN var.bindings :
     get_attribute(at, var.bindings[k], attr_name).ok}

\* C21: LOAD_ATTR and LOAD_METHOD on a target named t push the local
\* "t.attr" of the frame if it has one; otherwise they ask every value of
\* the target for the attribute and fail only if no value exposes it; the
\* Variable pushed is named "t.attr".
C21_AttributeRead ==
  [][Stepping /\ Instr.op \in {"LOAD_ATTR", "LOAD_METHOD"} /\ F.stack # <<>> =>
       LET target == Top(F)
           name == IF target.name # NoName THEN Append(target.name, Instr.s)
                   ELSE NoName
           local == load_local(F, name)
           exposing == Exposing(attrs, target, Instr.s)
       IN IF local.ok
            THEN /\ err' = "none"
                 /\ frames'[cur].stack[Len(frames'[cur].stack)] = local.var
          ELSE IF exposing # {}
            THEN /\ err' = "none"
                 /\ frames'[cur].stack[Len(frames'[cur].stack)].name = name
                 /\ SeqToSet(frames'[cur].stack[Len(frames'[cur].stack)].bindings)
                      = {get_attribute(attrs, target.bindings[k], Instr.s).var :
                           k \in exposing}
          ELSE err' = "NotImplementedError" /\ frames' = frames]_vars

\* The errors that end the frame in which they are raised: an
\* unimplemented operation or attribute error, a missing atomic value, an
\* unknown name.
FrameFatal == {"NotImplementedError", "ValueError", "KeyError"}

\* C22: an error of these kinds in a child frame does not end the analysis:
\* the frame is given up, its caller gets Any as the result of the call and
\* goes on, and the final_locals of the frames already finalized stay.
C22_ErrorsAreLocal ==
  [][/\ (err = "none" /\ Len(runstack) > 1) => err' \notin FrameFatal
     /\ (/\ err = "none" /\ Len(runstack) > 1
         /\ Len(runstack') < Len(runstack)
         /\ ~frames'[cur].has_final) =>
          (LET c == runstack[Len(runstack) - 1]
           IN /\ runstack' = SubSeq(runstack, 1, Len(runstack) - 1)
              /\ frames'[c].call.rets = Append(frames[c].call.rets, ANY)
              /\ frames'[c].call.funcs = Tail(frames[c].call.funcs))
     /\ \A i \in DOMAIN frames :
          (frames[i].has_final /\ i \in DOMAIN frames') =>
            frames'[i].final_locals = frames[i].final_locals]_vars

\* The frame started by this step, if the step is the start of a call of an
\* interpreter function or of a class body: the frame appended, or the one
\* that took the caller's place.
Started ==
  IF ~Calling \/ err' # "none" THEN {}
  ELSE IF Len(frames') = Len(frames) + 1 THEN {Len(frames')}
  ELSE IF frames'[cur].pc = 1 /\ ~frames'[cur].call.active THEN {cur}
  ELSE {}

\* The arguments the call in progress in f hands to its callee: the receiver
\* of a bound method, then the positional arguments.
Supplied(f) ==
  (IF f.call.funcs # <<>> /\ Head(f.call.funcs) # BUILD_CLASS
      /\ Head(f.call.funcs).tag = "BoundFunction"
     THEN {to_variable(Head(f.call.funcs).callself)} ELSE {})
  \cup SeqToSet(f.call.posargs)

\* C23: every call of an interpreter function runs in a frame of its own,
\* which starts with an empty stack, no returns, no shadowed names and, as
\* locals, the arguments bound to the parameters and nothing else.
C23_FreshFrame ==
  [][\A c \in Started :
       LET child == frames'[c] IN
       /\ child.stack = <<>> /\ child.returns = <<>>
       /\ child.shadowed_enclosing = {} /\ child.shadowed_globals = {}
       /\ child.functions = <<>> /\ child.classes = <<>>
       /\ ~child.has_final /\ child.pc = 1
       /\ DOMAIN child.locals \subseteq
            {N(CodeParams(child.code)[i]) : i \in DOMAIN CodeParams(child.code)}
       /\ \A name \in DOMAIN child.locals : child.locals[name] \in Supplied(F)
       /\ \A i \in DOMAIN frames :
            i # c => frames'[i].returns = frames[i].returns]_vars

\* C23: of two calls of the same function one after the other, the second
\* returns what its own argument makes it return: ident("s") returns the str,
\* after ident(1) returned the int, and the two results are kept apart.
C23_SecondCallAlone ==
  /\ \A i \in DOMAIN frames :
       frames[i].code = "ident" /\ frames[i].has_final =>
         /\ Len(frames[i].returns) = 1
         /\ get_return_value(frames[i])
              = join_values(Values(frames[i].locals[N("t")]))
  /\ prog = "m_twice" /\ N("b") \in DOMAIN frames[1].locals =>
       /\ Values(frames[1].locals[N("a")]) = <<PythonConstant("int", "1")>>
       /\ Values(frames[1].locals[N("b")]) = <<PythonConstant("str", "s")>>

C23_NoLeakage == C23_FreshFrame /\ []C23_SecondCallAlone

\* Both calls of ident are over, each in its own frame, and b is bound.
C23_Witness ==
  /\ prog = "m_twice" /\ Len(frames) = 3 /\ N("b") \in DOMAIN frames[1].locals
  /\ frames[2].code = "ident" /\ frames[3].code = "ident"
  /\ frames[2].has_final /\ frames[3].has_final
  /\ frames[2].returns # frames[3].returns

\* The step is a call of `op` into the fiddle overlay.
FiddleCall(op) == result'.op = op /\ result'.n = result.n + 1

\* The dataclasses with a field whose type leads back to the dataclass.
RECURSIVE Reaches(_, _, _)
Reaches(typ, target, fuel) ==
  /\ fuel > 0 /\ typ \in Dataclasses
  /\ \E i \in DOMAIN dataclass_fields(typ) :
       \/ dataclass_fields(typ)[i].typ = target
       \/ Reaches(dataclass_fields(typ)[i].typ, target, fuel - 1)

SelfReferring == {c \in Dataclasses : Reaches(c, c, Cardinality(Dataclasses))}

\* The extra arguments of a call Config(template, ...) do not match the
\* fields of the dataclass: too many positional arguments, a keyword that is
\* no field, or an argument of another type than its field.
Mismatch(template, args) ==
  LET fields == dataclass_fields(template)
      names == {fields[i].name : i \in DOMAIN fields}
  IN \/ Len(args.extra) > Len(fields)
     \/ \E k \in DOMAIN args.kwargs : k \notin names
     \/ \E i \in DOMAIN args.extra :
          i <= Len(fields) /\ args.extra[i] # fields[i].typ
     \/ \E k \in DOMAIN args.kwargs, i \in DOMAIN fields :
          fields[i].name = k /\ args.kwargs[k] # fields[i].typ

\* The extra arguments match, and give a value to some of the fields only.
PartialInit(template, args) ==
  /\ ~Mismatch(template, args)
  /\ args.extra # <<>> \/ DOMAIN args.kwargs # {}
  /\ \E i \in DOMAIN dataclass_fields(template) :
       i > Len(args.extra)
       /\ dataclass_fields(template)[i].name \notin DOMAIN args.kwargs

\* C24: a Config or Partial built over a dataclass with extra arguments
\* that do not match the __init__ of the dataclass records one error for
\* the call, and the instance of the generated class is made and returned
\* all the same; arguments for some of the parameters only record no error.
\* (For a dataclass that does not refer to itself.)
C24_ValidationNotFatal ==
  [][FiddleCall("new_slot") /\ result'.template \in Dataclasses \ SelfReferring =>
       LET template == result'.template
           key == <<template, result'.subclass_name>>
       IN /\ result'.exc = "none"
          /\ key \in DOMAIN _INSTANCE_CACHE'
          /\ result'.ret = [tag |-> "Instance", cls |-> _INSTANCE_CACHE'[key]]
          /\ result'.ret.cls.underlying = template
          /\ result'.ret.cls.fiddle_type_name = result'.subclass_name
          /\ IF Mismatch(template, result'.args)
               THEN /\ Len(errorlog') = Len(errorlog) + 1
                    /\ SubSeq(errorlog', 1, Len(errorlog)) = errorlog
                    /\ errorlog'[Len(errorlog')] \in
                         {"wrong-arg-types", "wrong-keyword-args",
                          "wrong-arg-count"}
             ELSE errorlog' = errorlog]_vars

\* Two calls over Simple: one with too many arguments, which has logged
\* its error, then one with x alone, which has logged nothing; both
\* returned an instance.
C24_Witness ==
  /\ result.op = "new_slot" /\ result.n = 2 /\ result.template = "Simple"
  /\ PartialInit("Simple", result.args)
  /\ errorlog = <<"wrong-arg-count">>
  /\ result.exc = "none" /\ result.ret.tag = "Instance"

\* C25, the cache as it stands: every entry is a class generated for the
\* template of its key, of the kind of its key, and two entries are two
\* classes, so that Config and Partial over one template differ.
C25_Entries ==
  /\ \A key \in DOMAIN _INSTANCE_CACHE :
       /\ key[1] \in Dataclasses /\ key[2] \in {"Config", "Partial"}
       /\ _INSTANCE_CACHE[key].underlying = key[1]
       /\ _INSTANCE_CACHE[key].fiddle_type_name = key[2]
       /\ \E i \in DOMAIN generated : generated[i] = _INSTANCE_CACHE[key]
  /\ \A k1, k2 \in DOMAIN _INSTANCE_CACHE :
       k1 # k2 => _INSTANCE_CACHE[k1].oid # _INSTANCE_CACHE[k2].oid

\* C25, the calls: no entry of the cache is ever replaced; a call of
\* make_buildable with a dataclass and "Config" or "Partial" returns the
\* entry of the pair, the very class an earlier call with the pair returned;
\* with a template that is no dataclass it returns Any and adds no entry;
\* with another subclass name it raises ValueError and the cache stays.
C25_Calls ==
  [][/\ \A key \in DOMAIN _INSTANCE_CACHE :
          key \in DOMAIN _INSTANCE_CACHE'
          /\ _INSTANCE_CACHE'[key] = _INSTANCE_CACHE[key]
     /\ FiddleCall("make_buildable") =>
          LET template == result'.template
              key == <<template, result'.subclass_name>>
          IN IF result'.subclass_name \notin {"Config", "Partial"}
               THEN /\ result'.exc = "ValueError"
                    /\ _INSTANCE_CACHE' = _INSTANCE_CACHE
             ELSE IF template \in Dataclasses \ SelfReferring
               THEN /\ result'.exc = "none"
                    /\ result'.ret = _INSTANCE_CACHE'[key]
                    /\ result'.ret.underlying = template
                    /\ key \in DOMAIN _INSTANCE_CACHE =>
                         /\ _INSTANCE_CACHE' = _INSTANCE_CACHE
                         /\ generated' = generated
                    /\ (/\ result.op = "make_buildable"
                        /\ result.template = template
                        /\ result.subclass_name = result'.subclass_name) =>
                         result'.ret = result.ret
             ELSE IF template \in Dataclasses
               THEN result'.exc = "none" => result'.ret = _INSTANCE_CACHE'[key]
             ELSE /\ result'.exc = "none" /\ result'.ret = ANY
                  /\ _INSTANCE_CACHE' = _INSTANCE_CACHE]_vars

C25_BuildableCache == C25_Calls /\ []C25_Entries

\* The second of two calls make_buildable("Config", Simple) has returned the
\* one class generated, and Partial has no entry.
C25_Witness ==
  /\ result.op = "make_buildable" /\ result.n = 2
  /\ result.template = "Simple" /\ result.subclass_name = "Config"
  /\ Len(generated) = 1 /\ result.ret = generated[1]
  /\ DOMAIN _INSTANCE_CACHE = {<<"Simple", "Config">>}
  /\ _NAME_INDEX = [b \in {"Config", "Partial"} |-> IF b = "Config" THEN 1 ELSE 0]

\* C26, one level: when a frame finalizes under a live creating frame,
\* each name it wrote as shadowing-enclosing is stored in the creating frame
\* with the frame's last Variable of it: as a shadowing-enclosing write if
\* the enclosing snapshot of the creating frame has the name, and else as a
\* local write, which marks nothing.
C26_Forwarding ==
  [][(Finishing /\ err' = "none" /\ live_parent(F) /\ F.f_back # cur) =>
       \A name \in F.shadowed_enclosing :
         LET P == frames[F.f_back]
             Q == frames'[F.f_back]
         IN /\ name \in DOMAIN Q.locals
            /\ Q.locals[name] = F.locals[name]
            /\ IF name \in DOMAIN P.initial_enclosing
                 THEN name \in Q.shadowed_enclosing
               ELSE (name \in Q.shadowed_enclosing
                       <=> name \in P.shadowed_enclosing)]_vars

\* C26, the chain top > mid > low of m_deep, where low writes y = 2 and top
\* binds y: when low has finalized the write is in mid, marked as
\* shadowing, and not yet in top; when mid has finalized it is in top, as a
\* plain local; it never gets to the module frame.
C26_Chain ==
  prog = "m_deep" =>
    LET y == N("y")
        two == <<PythonConstant("int", "2")>>
    IN /\ y \notin DOMAIN frames[1].locals
       /\ (Len(frames) >= 4 /\ frames[4].has_final /\ ~frames[3].has_final) =>
            /\ y \in frames[3].shadowed_enclosing
            /\ Values(frames[3].locals[y]) = two
            /\ Values(frames[2].locals[y]) = <<PythonConstant("int", "1")>>
       /\ (Len(frames) >= 3 /\ frames[3].has_final) =>
            /\ y \notin frames[2].shadowed_enclosing
            /\ Values(frames[2].locals[y]) = two
            /\ frames[2].has_final =>
                 frames[2].final_locals[y] = PythonConstant("int", "2")

C26_TransitiveWriteBack == C26_Forwarding /\ []C26_Chain

\* mid has finalized and top, still running, holds the 2 that low wrote.
C26_Witness ==
  /\ prog = "m_deep" /\ Len(frames) = 4
  /\ frames[4].has_final /\ frames[3].has_final /\ ~frames[2].has_final
  /\ frames[4].code = "low" /\ frames[3].code = "mid" /\ frames[2].code = "top"
  /\ Values(frames[2].locals[N("y")]) = <<PythonConstant("int", "2")>>
  /\ N("y") \notin frames[2].shadowed_enclosing

\* The Variable a frame holds for a global name at this moment: its local
\* if it is the module frame or has written the name, else its snapshot.
CurrentGlobal(f, name) ==
  IF _is_module_frame(f) \/ name \in f.shadowed_globals THEN f.locals[name]
  ELSE f.initial_globals[name]

CurrentGlobals(f) ==
  IF _is_module_frame(f) THEN DOMAIN f.locals
  ELSE DOMAIN f.initial_globals \cup f.shadowed_globals

\* C27, the steps: a frame that finalizes under a live creating frame
\* leaves its last Variable of every global it wrote in the creating frame
\* (marked as shadowing there unless that is the module frame); a frame
\* that is created gets, for every global, the Variable its creating frame
\* holds at that moment; and no snapshot of a frame changes afterwards.
C27_Steps ==
  [][/\ (Finishing /\ err' = "none" /\ live_parent(F) /\ F.f_back # cur) =>
          \A name \in F.shadowed_globals :
            /\ CurrentGlobal(frames'[F.f_back], name) = F.locals[name]
            /\ _is_module_frame(frames[F.f_back])
                 \/ name \in frames'[F.f_back].shadowed_globals
     /\ \A c \in Started :
          /\ DOMAIN frames'[c].initial_globals = CurrentGlobals(F)
          /\ \A name \in CurrentGlobals(F) :
               frames'[c].initial_globals[name] = CurrentGlobal(F, name)
     /\ \A i \in DOMAIN frames :
          i \notin Started => frames'[i].initial_globals = frames[i].initial_globals]_vars

\* C27, the two programs in which setg() writes g = 2 and readg() is
\* called next: the frame of readg starts with the 2 in its snapshot, be the
\* calls made by the module or by wrapper2, while the snapshots taken
\* before setg finalized keep the 1.
C27_LaterCalls ==
  LET g == N("g")
      one == <<PythonConstant("int", "1")>>
      two == <<PythonConstant("int", "2")>>
  IN /\ (prog = "m_gseq" /\ Len(frames) >= 2) =>
          Values(frames[2].initial_globals[g]) = one
     /\ (prog = "m_gseq" /\ Len(frames) >= 3) =>
          /\ frames[3].code = "readg" /\ frames[2].has_final
          /\ Values(frames[3].initial_globals[g]) = two
     /\ (prog = "m_gwrap" /\ Len(frames) >= 3) =>
          /\ Values(frames[2].initial_globals[g]) = one
          /\ Values(frames[3].initial_globals[g]) = one
     /\ (prog = "m_gwrap" /\ Len(frames) >= 4) =>
          /\ frames[4].code = "readg" /\ frames[4].f_back = 2
          /\ frames[3].has_final
          /\ Values(frames[4].initial_globals[g]) = two
          /\ frames[4].initial_globals[g] = frames[3].locals[g]

C27_GlobalsReachLaterCalls == C27_Steps /\ []C27_LaterCalls

\* readg, called by wrapper2 after setg, has returned the 2 it read from
\* its snapshot, which wrapper2's own snapshot does not hold.
C27_Witness ==
  /\ prog = "m_gwrap" /\ Len(frames) = 4 /\ frames[4].has_final
  /\ frames[4].code = "readg"
  /\ get_return_value(frames[4]) = PythonConstant("int", "2")
  /\ Values(frames[2].initial_globals[N("g")]) = <<PythonConstant("int", "1")>>

\* C28: a frame that finishes when its creating frame is already finalized
\* folds nothing into it: the creating frame stays as it is (final_locals,
\* bindings, shadowed names), the fold-back makes no store_local, store_deref
\* or store_global, and every attribute write t.a of the frame whose target
\* t is among its locals is set on the values of t.
C28_NothingFolded ==
  [][(/\ Finishing /\ end_of_run_assert(F) /\ F.f_back # 0 /\ F.f_back # cur
      /\ frames[F.f_back].has_final) =>
       LET m == _merge_nonlocals_into(F, merge_start(F))
       IN /\ err' = "none" /\ frames'[cur].has_final
          /\ frames'[F.f_back] = frames[F.f_back]
          /\ \A i \in DOMAIN m.log : m.log[i][1] = "set_attribute"
          /\ \A name \in DOMAIN F.locals :
               LET target == SubSeq(name, 1, Len(name) - 1)
               IN (Len(name) > 1 /\ target \in DOMAIN F.locals) =>
                    \A value \in SeqToSet(Values(F.locals[target])) :
                      [target |-> value, attr |-> name[Len(name)],
                       value |-> join_values(Values(F.locals[name]))]
                        \in attrs']_vars

\* bump, analysed on its own under the finalized frame of host, has written
\* y, g and y.a and is finalized: host still ends with y = 1, the module
\* with g = 1, and the int 2 has the attribute a.
C28_Witness ==
  /\ prog = "m_iso" /\ Len(frames) = 3 /\ frames[3].code = "bump"
  /\ frames[3].f_back = 2 /\ frames[3].has_final /\ frames[2].has_final
  /\ frames[3].shadowed_enclosing = {N("y")}
  /\ frames[3].shadowed_globals = {N("g")}
  /\ frames[2].final_locals[N("y")] = PythonConstant("int", "1")
  /\ frames[1].final_locals[N("g")] = PythonConstant("int", "1")
  /\ [target |-> PythonConstant("int", "2"), attr |-> "a",
      value |-> PythonConstant("int", "4")] \in attrs

\* The Variable a frame reads for the name t: its local, else the one of
\* its enclosing snapshot, else the one of its global snapshot.
ReadAs(f, t) ==
  IF t \in DOMAIN f.locals THEN f.locals[t]
  ELSE IF t \in DOMAIN f.initial_enclosing THEN f.initial_enclosing[t]
  ELSE f.initial_globals[t]

Readable(f, t) ==
  t \in DOMAIN f.locals \cup DOMAIN f.initial_enclosing
        \cup DOMAIN f.initial_globals

\* C29: when a frame finalizes, every attribute write t.a = v it made is
\* either set on each value of t or stored in its creating frame under the
\* name t.a, whether t is a local of the frame or was read from its
\* enclosing or global snapshot.
C29_NoWriteLost ==
  [][(Finishing /\ err' = "none") =>
       \A name \in DOMAIN F.locals :
         LET t == SubSeq(name, 1, Len(name) - 1)
         IN (Len(name) > 1 /\ Readable(F, t)) =>
              \/ \A value \in SeqToSet(Values(ReadAs(F, t))) :
                   [target |-> value, attr |-> name[Len(name)],
                    value |-> join_values(Values(F.locals[name]))] \in attrs'
              \/ /\ F.f_back # 0 /\ F.f_back # cur
                 /\ name \in DOMAIN frames'[F.f_back].locals
                 /\ frames'[F.f_back].locals[name] = F.locals[name]]_vars

\* The stack of the running frame without its n topmost entries.
Below(n) == SubSeq(F.stack, 1, Len(F.stack) - n)

\* C30, the loads: LOAD_METHOD puts the NULL marker and the method looked
\* up in the place of the instance; LOAD_GLOBAL with the low bit of its
\* argument set, in code of Python 3.11, pushes the marker and then the
\* global, and else the global alone.
C30_Loads ==
  [][/\ (Stepping /\ Instr.op = "LOAD_METHOD" /\ F.stack # <<>>
         /\ err' = "none") =>
          frames'[cur].stack =
            Below(1) \o <<to_variable(NULL),
                          _load_attr(F, attrs, Top(F), Instr.s).var>>
     /\ (Stepping /\ Instr.op = "LOAD_GLOBAL" /\ err' = "none") =>
          frames'[cur].stack =
            F.stack
            \o (IF Instr.n % 2 = 1 /\ PythonVersion(F.code) = <<3, 11>>
                  THEN <<to_variable(NULL)>> ELSE <<>>)
            \o <<load_global(F, N(Instr.s)).var>>]_vars

\* C30, the calls: CALL n and CALL_METHOD n take the n arguments, the
\* callable and the entry below it off the stack and call the values of the
\* callable with the arguments; CALL raises NotImplementedError, and takes
\* nothing, unless that entry is the NULL constant and nothing else; when the
\* call is over one Variable is pushed.
C30_Calls ==
  [][/\ (Stepping /\ Instr.op \in {"CALL", "CALL_METHOD"}
         /\ Len(F.stack) >= Instr.n + 2) =>
          LET marker == F.stack[Len(F.stack) - Instr.n - 1]
              callable == F.stack[Len(F.stack) - Instr.n]
          IN IF Instr.op = "CALL"
                /\ ~(Len(marker.bindings) = 1 /\ marker.bindings[1] = NULL)
               THEN err' = "NotImplementedError" /\ frames' = frames
             ELSE /\ err' = "none"
                  /\ frames'[cur].stack = Below(Instr.n + 2)
                  /\ frames'[cur].call.active
                  /\ frames'[cur].call.funcs = Values(callable)
                  /\ frames'[cur].call.posargs =
                       SubSeq(F.stack, Len(F.stack) - Instr.n + 1,
                              Len(F.stack))
     /\ (Calling /\ F.call.funcs = <<>>) =>
          /\ Len(frames'[cur].stack) = Len(F.stack) + 1
          /\ Below(0) = SubSeq(frames'[cur].stack, 1, Len(F.stack))
          /\ ~frames'[cur].call.active]_vars

\* C30, the pair LOAD_METHOD ... CALL_METHOD of m_py310 (x = C().get()):
\* the instance is alone on the stack before LOAD_METHOD, marker and method
\* are there before CALL_METHOD, and the result is alone on it after.
C30_Pair ==
  (prog = "m_py310" /\ frames[1].live /\ ~frames[1].call.active) =>
    /\ frames[1].pc = 10 =>
         /\ Len(frames[1].stack) = 1
         /\ frames[1].stack[1].bindings[1].tag = "MutableInstance"
    /\ frames[1].pc = 11 =>
         /\ Len(frames[1].stack) = 2
         /\ frames[1].stack[1] = to_variable(NULL)
         /\ frames[1].stack[2].bindings[1].tag = "BoundFunction"
    /\ frames[1].pc = 12 =>
         /\ Len(frames[1].stack) = 1
         /\ Values(frames[1].stack[1]) = <<PythonConstant("int", "42")>>

C30_NullMarkerProtocol == C30_Loads /\ C30_Calls /\ []C30_Pair

\* The call of the method is over: its result, 42, is the one entry of the
\* stack, about to be stored in x.
C30_Witness ==
  /\ prog = "m_py310" /\ frames[1].live /\ ~frames[1].call.active
  /\ frames[1].pc = 12 /\ Len(frames) = 3 /\ frames[3].code = "get42"
  /\ Values(frames[1].stack[1]) = <<PythonConstant("int", "42")>>

\* C31, the frames there are: a frame is a module frame exactly when no
\* frame created it; a running frame that a frame created reads a global it
\* has not written from its snapshot of the globals.
C31_ChildFrames ==
  \A i \in FrameIds :
    /\ _is_module_frame(frames[i]) <=> frames[i].f_back = 0
    /\ (frames[i].f_back # 0 /\ frames[i].live) =>
         \A n \in DOMAIN frames[i].initial_globals \ frames[i].shadowed_globals :
           load_global(frames[i], n)
             = Ret(with_name(frames[i].initial_globals[n], n))

\* C31, the writes: STORE_GLOBAL in a frame that a frame created marks the
\* name as shadowing the global.
C31_WritesMarked ==
  (Handled("STORE_GLOBAL") /\ F.f_back # 0) =>
    N(Instr.s) \in frames'[cur].shadowed_globals

\* C31, the construction: the call of a function makes the frame that the
\* call of the same function under another name makes, but for the name; a
\* frame made so has a creating frame, is no module frame, and no assertion
\* of the constructor stops the call.
C31_AnyName ==
  (Calling /\ F.call.funcs # <<>>
   /\ Head(F.call.funcs).tag = "InterpreterFunction"
   /\ Len(frames) < MaxFrames) =>
    LET func == Head(F.call.funcs)
        other == function_call(F, Len(frames) + 1,
                               [func EXCEPT !.name = "f"], F.call.posargs)
    IN other.ok =>
         /\ err' = "none"
         /\ Len(frames') = Len(frames) + 1
         /\ frames'[Len(frames')] = [other.frame EXCEPT !.name = func.name]
         /\ frames'[Len(frames')].f_back = cur
         /\ ~_is_module_frame(frames'[Len(frames')])

\* C31: a frame is the module frame exactly when it has no creating frame;
\* every frame made by make_child_frame, whatever the name of its function,
\* is a non-module frame: it reads globals from its snapshot, its global
\* writes are marked, and the constructor's assertion on module frames does
\* not fire for it.
C31_ModuleIffNoCreator ==
  /\ []C31_ChildFrames
  /\ [][C31_WritesMarked /\ C31_AnyName]_vars

\* The dataclasses a conversion of the template goes through: the template
\* and the dataclasses its fields lead to.
Involved(template) ==
  {template} \cup {d \in Dataclasses :
                     Reaches(template, d, Cardinality(Dataclasses))}

\* The classes generated as `builder` over the dataclass d.
GeneratedFor(gen, d, builder) ==
  {i \in DOMAIN gen : gen[i].underlying = d /\ gen[i].fiddle_type_name = builder}

\* C32, the calls: make_buildable with "Config" or "Partial" and a dataclass
\* returns a class, and after it the template has one class generated for
\* the subclass name and every other dataclass involved one Config.
C32_Finishes ==
  (FiddleCall("make_buildable")
   /\ result'.subclass_name \in {"Config", "Partial"}
   /\ result'.template \in Dataclasses) =>
    /\ result'.exc = "none"
    /\ result'.ret.tag = "Buildable"
    /\ Cardinality(GeneratedFor(generated', result'.template,
                                result'.subclass_name)) = 1
    /\ \A d \in Involved(result'.template) \ {result'.template} :
         Cardinality(GeneratedFor(generated', d, "Config")) = 1

\* C32, the names: no two generated classes have the same name, and no
\* dataclass has two classes generated for one subclass name.
C32_UniqueNames ==
  /\ \A i, j \in DOMAIN generated :
       i # j => generated[i].name # generated[j].name
  /\ \A d \in Dataclasses, builder \in {"Config", "Partial"} :
       Cardinality(GeneratedFor(generated, d, builder)) <= 1

\* C32: make_buildable finishes for every template, also for a dataclass
\* whose fields lead back to it, and each dataclass involved gets exactly
\* one generated Config class, with a name no other generated class has.
C32_MakeBuildableTerminates == [][C32_Finishes]_vars /\ []C32_UniqueNames

====
